---- MODULE Spec2Model ----
(***************************************************************************)
(* Model of the repository layer of go-littr (src/app/repository.go):      *)
(* the collection cursor walker LoadFromCollection, the concurrent         *)
(* aggregations built on it (accounts, objects, ActorCollection,           *)
(* LoadAccounts) and the write operations of the repository facade.        *)
(***************************************************************************)
EXTENDS Integers, Sequences, FiniteSets, TLC

\* ------------------------------------------------------------------ bounds
MaxFilters == 2      \* filter sets handed to one aggregation
MaxTotal == 3        \* entries in one remote collection
PageSize == 2        \* entries the remote endpoint serves per page
MaxStart == 1        \* largest next-page token a caller passes in
MaxItemsChoices == {0, 2}  \* values of Filters.MaxItems a caller passes in

NoErr == "none"

Min(a, b) == IF a < b THEN a ELSE b
Max(a, b) == IF a > b THEN a ELSE b
CeilDiv(a, b) == (a + b - 1) \div b

\* --------------------------------------------------------------- variables
VARIABLES
  op,          \* the operation being run
  ff,          \* the filter sets of the call: sequence of [Next, Prev, MaxItems]
  ff0,         \* the filter sets as the caller passed them in
  total,       \* remote endpoint: declared total of the collection each filter set selects
  nextOnLast,  \* remote endpoint: whether the last non-empty page still carries a next link
  withheld,    \* remote endpoint: whether it withholds the entries of the first
               \* page of a walk from the reader and serves its links only
  clk,         \* the time on the clock and the deadline of the walk's timeout
               \* context, in milliseconds: [now, deadline]
  loopVar,     \* the range variable f of the spawning loop (index into ff, 0 before the loop)
  pc,          \* position of each task
  cur,         \* colCursor.filters of each task's walk (index into ff)
  processed,   \* local counter of each walk
  page,        \* the collection page each walk fetched last
  status,      \* what the accumulator returned for that page
  fetches,     \* remote page fetches each walk has issued
  terr,        \* error each task returned
  buf,         \* buffers shared by the tasks of one aggregation
  snap,        \* what a task read of the shared buffers before writing them back
  lock,        \* holder of the merge lock w
  pass,        \* the secondary pass each ActorCollection task is in
  gerr,        \* task whose error the errgroup kept (first one wins), 0 for none
  ret,         \* what the operation returned to its caller
  req,         \* the arguments of the write operation being run
  wpc,         \* position of the write operation
  calls,       \* remote calls the write operation has issued, in order
  res,         \* what the write operation returned
  exists,      \* SaveVote: the vote of the submitter the lookup found
  sent,        \* activities handed to ToOutbox, in order: [act, ok], ok telling
               \* whether the endpoint took the activity
  hs,          \* the request handlers running: [op, acct, target] each
  signFn,      \* the account the client's signing function is bound to
  hpc,         \* position of each handler
  wire,        \* requests that went out, in order: [by, signer, header, err]
  s2s,         \* what withAccountS2S returned to each handler
  rd,          \* one entry on its way through a read operation and its filter
  rt,          \* one item on its way through loadAPItem and back
  call         \* one call of a function: [fn, arg] and, once it returned, out

walkVars == <<pc, cur, processed, page, status, fetches, terr>>
envVars == <<op, ff0, total, nextOnLast, withheld, clk>>
aggVars == <<loopVar, buf, snap, lock, pass, gerr, ret>>
writeVars == <<req, wpc, calls, res, exists, sent>>
signVars == <<hs, signFn, hpc, wire, s2s>>
convVars == <<rd, rt, call>>
vars == <<op, ff, ff0, total, nextOnLast, withheld, clk, loopVar, pc, cur, processed,
          page, status, fetches, terr, buf, snap, lock, pass, gerr, ret, req, wpc, calls, res,
          exists, sent, hs, signFn, hpc, wire, s2s, rd, rt, call>>

Tasks == DOMAIN ff

\* ----------------------------------------------------- the remote endpoint
\* The j-th entry of the collection selected by filter set i.  Every collection
\* is served newest first; identifiers are unique over all collections.
EntryKind(o, i, j) ==
  IF o = "ActorCollection"
    THEN LET k == (MaxTotal * (i - 1) + j) % 6
         IN CASE k = 1 -> "Create"        \* Create of an embedded Note
              [] k = 2 -> "Like"          \* Like of an object no page holds
              [] k = 3 -> "Follow"
              [] k = 4 -> "Flag"          \* Flag of an actor given by reference
              [] k = 5 -> "CreateLink"    \* Create of an object given by reference
              [] OTHER -> "CreatePerson"  \* Create of an embedded Person
    ELSE IF o \in {"accounts", "LoadAccounts"} THEN "Person" ELSE "Note"

Entry(o, i, j) ==
  [id |-> (i - 1) * (MaxTotal + 1) + j,
   ts |-> MaxFilters * (MaxTotal + 1 - j) + (i - 1),
   kind |-> EntryKind(o, i, j)]

\* The identifier of the object a Like entry names by reference: an object of
\* the objects collection that no entry of any served collection embeds.
LikeTarget(id) == MaxFilters * (MaxTotal + 1) + id

NoPage == [kind |-> "none", items |-> <<>>, first |-> 0, next |-> 0, prev |-> 0,
           totalItems |-> 0, after |-> 0]

\* What the endpoint answers to a request for filter set i with after=tok.
ServePage(o, i, tok, T, onLast) ==
  LET lo == tok + 1
      hi == Min(tok + PageSize, T)
      n == IF hi >= lo THEN hi - lo + 1 ELSE 0
  IN [kind |-> IF tok = 0 THEN "OrderedCollection" ELSE "OrderedCollectionPage",
      items |-> [k \in 1..n |-> Entry(o, i, lo + k - 1)],
      first |-> 0,
      next |-> IF n = 0 THEN 0
               ELSE IF hi < T THEN hi
               ELSE IF onLast THEN hi ELSE 0,
      prev |-> IF n > 0 /\ tok > 0 THEN lo ELSE 0,
      totalItems |-> T,
      after |-> tok]

\* pub.CollectionInterface.Count
Count(col) == IF col.totalItems > 0 THEN col.totalItems ELSE Len(col.items)

\* ------------------------------------------------------ LoadFromCollection
getCollectionPrevNext(col) ==
  IF col.kind = "OrderedCollectionPage"
    THEN [prev |-> col.prev, next |-> col.next]
    ELSE [prev |-> 0,
          next |-> IF col.first = 0 /\ Len(col.items) > 0
                     THEN col.after + Len(col.items)
                     ELSE col.first]

\* What the endpoint answers to the next request of the walk of task t.
Served(t) ==
  LET pg == ServePage(op, cur[t], ff[cur[t]].Next, total[cur[t]], nextOnLast)
  IN IF withheld /\ fetches[t] = 0 THEN [pg EXCEPT !.items = <<>>] ELSE pg

\* accumContinue without the comparison of the counter with the declared total
accumContinueNoTotal(st, next, proc, col) ==
  ~st /\ next # 0

\* accumContinue that forgets what the accumulator answered
accumContinueNoStatus(st, next, proc, col) ==
  next # 0 /\ proc # Count(col)

\* lines 1122-1128: the status of the loop after one page
accumContinue(st, next, proc, col) ==
  ~st /\ next # 0 /\ proc # Count(col)

\* Fetch that tries again after a failed fetch instead of returning the error
FetchRetry(t) ==
  /\ pc[t] = "fetch"
  /\ fetches' = [fetches EXCEPT ![t] = @ + 1]
  /\ \/ /\ page' = [page EXCEPT ![t] =
                      Served(t)]
        /\ pc' = [pc EXCEPT ![t] = "accum"]
        /\ UNCHANGED terr
     \/ /\ terr[t] = NoErr
        /\ terr' = [terr EXCEPT ![t] = "fetch"]
        /\ UNCHANGED <<pc, page>>
  /\ UNCHANGED <<ff, cur, processed, status>>
  /\ UNCHANGED envVars
  /\ UNCHANGED convVars
  /\ UNCHANGED writeVars
  /\ UNCHANGED signVars
  /\ UNCHANGED aggVars

\* line 1104: one remote page fetch of the walk of task t
Fetch(t) ==
  /\ pc[t] = "fetch"
  /\ fetches' = [fetches EXCEPT ![t] = @ + 1]
  /\ \/ /\ page' = [page EXCEPT ![t] =
                      Served(t)]
        /\ pc' = [pc EXCEPT ![t] = "accum"]
        /\ UNCHANGED terr
     \/ /\ terr' = [terr EXCEPT ![t] = "fetch"]
        /\ pc' = [pc EXCEPT ![t] = "walked"]
        /\ UNCHANGED page
  /\ UNCHANGED <<ff, cur, processed, status>>
  /\ UNCHANGED envVars
  /\ UNCHANGED convVars
  /\ UNCHANGED writeVars
  /\ UNCHANGED signVars
  /\ UNCHANGED aggVars

\* lines 1117-1132: tokens, counter and loop decision after the accumulator
Advance(t) ==
  /\ pc[t] = "advance"
  /\ LET pn == getCollectionPrevNext(page[t])
         f == cur[t]
         proc == processed[t] + Len(page[t].items)
     IN /\ ff' = [ff EXCEPT ![f].Next = pn.next,
                            ![f].Prev = IF processed[t] = 0 THEN pn.prev ELSE @]
        /\ processed' = [processed EXCEPT ![t] = proc]
        /\ pc' = [pc EXCEPT ![t] =
                    IF accumContinue(status[t], pn.next, proc, page[t])
                      THEN "fetch" ELSE "walked"]
  /\ UNCHANGED <<cur, page, status, fetches, terr>>
  /\ UNCHANGED envVars
  /\ UNCHANGED convVars
  /\ UNCHANGED writeVars
  /\ UNCHANGED signVars
  /\ UNCHANGED aggVars

\* An accumulator handed in by a caller: it keeps what it is given in its own
\* buffer and answers (stop, error) as it sees fit (lines 1109-1116).
AccumCaller(t) ==
  /\ pc[t] = "accum"
  /\ op = "LoadFromCollection"
  /\ \E st \in BOOLEAN, fail \in BOOLEAN, kept \in BOOLEAN :
       /\ status' = [status EXCEPT ![t] = st]
       /\ buf' = IF fail /\ ~kept THEN buf
                 ELSE [buf EXCEPT !.items = @ \o page[t].items]
       /\ IF fail
            THEN /\ terr' = [terr EXCEPT ![t] = "accum"]
                 /\ pc' = [pc EXCEPT ![t] = "walked"]
            ELSE /\ pc' = [pc EXCEPT ![t] = "advance"]
                 /\ UNCHANGED terr
  /\ UNCHANGED <<ff, cur, processed, page, fetches>>
  /\ UNCHANGED envVars
  /\ UNCHANGED convVars
  /\ UNCHANGED writeVars
  /\ UNCHANGED signVars
  /\ UNCHANGED <<loopVar, snap, lock, pass, gerr, ret>>

\* line 1135 / 1105 / 1115: the walk hands its error to its caller
WalkReturn(t) ==
  /\ pc[t] = "walked"
  /\ op = "LoadFromCollection"
  /\ pc' = [pc EXCEPT ![t] = "done"]
  /\ ret' = [err |-> terr[t], by |-> t, items |-> buf.items, total |-> Len(buf.items)]
  /\ UNCHANGED <<ff, cur, processed, page, status, fetches, terr>>
  /\ UNCHANGED envVars
  /\ UNCHANGED convVars
  /\ UNCHANGED writeVars
  /\ UNCHANGED signVars
  /\ UNCHANGED <<loopVar, buf, snap, lock, pass, gerr>>

EmptyBuf ==
  [items |-> <<>>, follows |-> <<>>, accounts |-> <<>>, moderations |-> <<>>,
   appreciations |-> <<>>, relations |-> {}, deferredItems |-> {},
   deferredActors |-> {}, deferredActivities |-> {}, result |-> <<>>,
   count |-> 0, actorsIRI |-> {}]

NoRequest == [op |-> "none"]

\* the client as built: its signing function bound to no account
NoSigner == [id |-> 0]

\* no entry is being read, no item is being converted
NoRead == [pc |-> "idle"]
NoTrip == [pc |-> "idle"]
NoCall == [pc |-> "idle"]

ConvIdle ==
  /\ rd = NoRead
  /\ rt = NoTrip
  /\ call = NoCall

\* no handler is running
SignIdle ==
  /\ hs = <<>>
  /\ signFn = NoSigner
  /\ hpc = <<>>
  /\ wire = <<>>
  /\ s2s = <<>>

\* the zero Vote: no metadata, weight 0
NoVote == [HasMetadata |-> FALSE, Weight |-> 0]

Pending == [err |-> "pending", by |-> 0, items |-> <<>>, total |-> 0]

FilterSets == [Next : 0..MaxStart, Prev : {0}, MaxItems : MaxItemsChoices]

\* One walk on its own: LoadFromCollection(ctx, f, &colCursor{filters: ff[1]}, accum)
WalkStart ==
  /\ op = "LoadFromCollection"
  /\ ff \in [1..1 -> FilterSets]
  /\ ff0 = ff
  /\ total \in [1..1 -> 0..MaxTotal]
  /\ nextOnLast \in BOOLEAN
  /\ withheld \in BOOLEAN
  /\ loopVar = 1
  /\ pc = [t \in 1..1 |-> "fetch"]
  /\ cur = [t \in 1..1 |-> 1]
  /\ processed = [t \in 1..1 |-> 0]
  /\ page = [t \in 1..1 |-> NoPage]
  /\ status = [t \in 1..1 |-> FALSE]
  /\ fetches = [t \in 1..1 |-> 0]
  /\ terr = [t \in 1..1 |-> NoErr]
  /\ buf = EmptyBuf
  /\ snap = [t \in 1..1 |-> EmptyBuf]
  /\ lock = 0
  /\ pass = [t \in 1..1 |-> 0]
  /\ gerr = 0
  /\ ret = Pending
  /\ req = NoRequest
  /\ wpc = "idle"
  /\ calls = <<>>
  /\ res = "pending"
  /\ exists = NoVote
  /\ sent = <<>>
  /\ SignIdle
  /\ ConvIdle

\* a walk whose fetches are answered in time
NoClock == [now |-> 0, deadline |-> 0]

InitWalk ==
  /\ WalkStart
  /\ clk = NoClock

NextWalk ==
  \/ \E t \in Tasks : Fetch(t)
  \/ \E t \in Tasks : AccumCaller(t)
  \/ \E t \in Tasks : Advance(t)
  \/ \E t \in Tasks : WalkReturn(t)

SpecWalk == InitWalk /\ [][NextWalk]_vars

\* ------------------------------------------------------ the walk under time
PageTimeout == 10

\* the time the endpoint takes to answer one request
FetchTimes == {0, 4, 8, 12}

\* line 1104 on the clock: every fetch is made with the context ttx, whose
\* deadline is set once, at line 1097, before the loop.  The fetch ends with
\* the answer, or with the context's error when the deadline comes first.
TimedFetch(t) ==
  /\ pc[t] = "fetch"
  /\ fetches' = [fetches EXCEPT ![t] = @ + 1]
  /\ \E d \in FetchTimes :
       IF clk.now + d < clk.deadline
         THEN /\ clk' = [clk EXCEPT !.now = @ + d]
              /\ \/ /\ page' = [page EXCEPT ![t] = Served(t)]
                    /\ pc' = [pc EXCEPT ![t] = "accum"]
                    /\ UNCHANGED terr
                 \/ /\ terr' = [terr EXCEPT ![t] = "fetch"]
                    /\ pc' = [pc EXCEPT ![t] = "walked"]
                    /\ UNCHANGED page
         ELSE /\ clk' = [clk EXCEPT !.now = clk.deadline]
              /\ terr' = [terr EXCEPT ![t] = "deadline"]
              /\ pc' = [pc EXCEPT ![t] = "walked"]
              /\ UNCHANGED page
  /\ UNCHANGED <<ff, cur, processed, status>>
  /\ UNCHANGED <<op, ff0, total, nextOnLast, withheld>>
  /\ UNCHANGED convVars
  /\ UNCHANGED writeVars
  /\ UNCHANGED signVars
  /\ UNCHANGED aggVars

\* line 1097: context.WithTimeout(ctx, 10*time.Millisecond), ctx without deadline
InitTimed ==
  /\ WalkStart
  /\ clk = [now |-> 0, deadline |-> PageTimeout]

NextTimed ==
  \/ \E t \in Tasks : TimedFetch(t)
  \/ \E t \in Tasks : AccumCaller(t)
  \/ \E t \in Tasks : Advance(t)
  \/ \E t \in Tasks : WalkReturn(t)

SpecTimed == InitTimed /\ [][NextTimed]_vars

\* ------------------------------------------------------------ aggregations
WalkOps == {"accounts", "objects", "Objects", "ActorCollection"}
AggOps == WalkOps \cup {"LoadAccounts"}

MapSeq(s, F(_)) == [k \in 1..Len(s) |-> F(s[k])]

\* What the decoders make of one entry of a page.
ItemOf(e) == [id |-> e.id, ts |-> e.ts, kind |-> "Item", link |-> <<"obj", e.id>>]
AccountOf(e) == [id |-> e.id, ts |-> e.ts, kind |-> "Account", link |-> <<"obj", e.id>>]
ActivityOf(e) == [id |-> e.id, ts |-> e.ts, kind |-> e.kind, link |-> <<"act", e.id>>]

OfKind(s, k) == SelectSeq(s, LAMBDA e : e.kind = k)

\* What an accumulator appends to each shared buffer for one page:
\* accounts lines 1148-1156, objects lines 1179-1184, ActorCollection lines
\* 1318-1385, LoadAccounts lines 1783-1793.  Every entry served decodes to a
\* valid, public, local entity.
Additions(o, col) ==
  LET es == col.items
      isAC == o = "ActorCollection"
  IN [accounts |-> IF isAC THEN MapSeq(OfKind(es, "CreatePerson"), AccountOf)
                   ELSE IF o \in {"accounts", "LoadAccounts"}
                     THEN MapSeq(OfKind(es, "Person"), AccountOf)
                     ELSE <<>>,
      items |-> IF isAC THEN MapSeq(OfKind(es, "Create"), ItemOf)
                ELSE IF o \in {"objects", "Objects"} THEN MapSeq(es, ItemOf)
                ELSE <<>>,
      follows |-> IF isAC THEN MapSeq(OfKind(es, "Follow"), ActivityOf) ELSE <<>>,
      moderations |-> IF isAC THEN MapSeq(OfKind(es, "Flag"), ActivityOf) ELSE <<>>,
      appreciations |-> IF isAC THEN MapSeq(OfKind(es, "Like"), ActivityOf) ELSE <<>>,
      relations |-> IF isAC
                      THEN {<<es[k].id,
                              IF es[k].kind \in {"Create", "CreateLink", "CreatePerson"}
                                THEN <<"obj", es[k].id>> ELSE <<"act", es[k].id>> >> :
                            k \in 1..Len(es)}
                      ELSE {},
      deferredItems |-> IF isAC
                          THEN {[id |-> es[k].id, ts |-> es[k].ts] :
                                k \in {x \in 1..Len(es) : es[x].kind = "CreateLink"}}
                          ELSE {},
      deferredActors |-> IF isAC
                           THEN {es[k].id : k \in {x \in 1..Len(es) : es[x].kind = "Flag"}}
                           ELSE {}]

\* The appends of one accumulator call, made on the buffers as the task read
\* them (base); a buffer the page adds nothing to is not written.
Appended(now, base, add) ==
  [now EXCEPT
     !.accounts = IF add.accounts = <<>> THEN @ ELSE base.accounts \o add.accounts,
     !.items = IF add.items = <<>> THEN @ ELSE base.items \o add.items,
     !.follows = IF add.follows = <<>> THEN @ ELSE base.follows \o add.follows,
     !.moderations = IF add.moderations = <<>> THEN @
                     ELSE base.moderations \o add.moderations,
     !.appreciations = IF add.appreciations = <<>> THEN @
                       ELSE base.appreciations \o add.appreciations,
     !.relations = IF add.relations = {} THEN @ ELSE base.relations \cup add.relations,
     !.deferredItems = IF add.deferredItems = {} THEN @
                       ELSE base.deferredItems \cup add.deferredItems,
     !.deferredActors = IF add.deferredActors = {} THEN @
                        ELSE base.deferredActors \cup add.deferredActors]

\* The stop signal of the accumulators (lines 1159, 1185, 1388), f being the
\* filter set the range variable names when the accumulator returns.
StopSignal(o, b, f) ==
  CASE o = "accounts" -> Len(b.accounts) = f.MaxItems \/ f.Next = 0
    [] o \in {"objects", "Objects"} -> Len(b.items) = f.MaxItems \/ f.Next = 0
    [] OTHER -> f.Next = 0

\* lines 1145-1146, 1176-1177, 1315-1316, 1775-1776: the loop of g.Go calls
Spawn ==
  /\ op \in AggOps
  /\ loopVar < Len(ff)
  /\ loopVar' = loopVar + 1
  /\ pc' = [pc EXCEPT ![loopVar + 1] = "spawned"]
  /\ UNCHANGED <<ff, cur, processed, page, status, fetches, terr>>
  /\ UNCHANGED envVars
  /\ UNCHANGED convVars
  /\ UNCHANGED writeVars
  /\ UNCHANGED signVars
  /\ UNCHANGED <<buf, snap, lock, pass, gerr, ret>>

\* lines 1147, 1178, 1317: the task builds its cursor from the range variable f,
\* which the function literal shares with the spawning loop
TaskStart(t) ==
  /\ pc[t] = "spawned"
  /\ op \in WalkOps
  /\ cur' = [cur EXCEPT ![t] = loopVar]
  /\ pc' = [pc EXCEPT ![t] = "fetch"]
  /\ UNCHANGED <<ff, processed, page, status, fetches, terr>>
  /\ UNCHANGED envVars
  /\ UNCHANGED convVars
  /\ UNCHANGED writeVars
  /\ UNCHANGED signVars
  /\ UNCHANGED aggVars

\* the accumulator reads the shared buffers it is about to append to
AccumRead(t) ==
  /\ pc[t] = "accum"
  /\ op \in AggOps
  /\ snap' = [snap EXCEPT ![t] = buf]
  /\ pc' = [pc EXCEPT ![t] = "accwrite"]
  /\ UNCHANGED <<ff, cur, processed, page, status, fetches, terr>>
  /\ UNCHANGED envVars
  /\ UNCHANGED convVars
  /\ UNCHANGED writeVars
  /\ UNCHANGED signVars
  /\ UNCHANGED <<loopVar, buf, lock, pass, gerr, ret>>

\* the accumulator stores the appended buffers and answers its stop signal;
\* LoadAccounts also stores the declared total (line 1783)
AccumWrite(t) ==
  /\ pc[t] = "accwrite"
  /\ LET nb == Appended(buf, snap[t], Additions(op, page[t]))
     IN /\ buf' = IF op = "LoadAccounts"
                    THEN [nb EXCEPT !.count = page[t].totalItems] ELSE nb
        /\ status' = [status EXCEPT ![t] = StopSignal(op, nb, ff[loopVar])]
  /\ pc' = [pc EXCEPT ![t] = IF op = "LoadAccounts" THEN "lavotes" ELSE "advance"]
  /\ snap' = [snap EXCEPT ![t] = EmptyBuf]
  /\ UNCHANGED <<ff, cur, processed, page, fetches, terr>>
  /\ UNCHANGED envVars
  /\ UNCHANGED convVars
  /\ UNCHANGED writeVars
  /\ UNCHANGED signVars
  /\ UNCHANGED <<loopVar, lock, pass, gerr, ret>>

\* lines 1393-1413: the deferred items are looked up in the objects collection;
\* a failed lookup is dropped, the moderation ops are matched on copies only
DeferredItems(t) ==
  /\ pc[t] = "walked"
  /\ op = "ActorCollection"
  /\ terr[t] = NoErr
  /\ pc' = [pc EXCEPT ![t] = "deferActors"]
  /\ IF buf.deferredItems = {}
       THEN UNCHANGED <<buf, fetches>>
       ELSE /\ fetches' = [fetches EXCEPT ![t] = @ + 1]
            /\ \E ok \in BOOLEAN :
                 LET have == {buf.items[k].id : k \in 1..Len(buf.items)}
                     new == {d \in buf.deferredItems : d.id \notin have}
                     asSeq[S \in SUBSET new] ==
                       IF S = {} THEN <<>>
                       ELSE LET d == CHOOSE x \in S : \A y \in S : x.id <= y.id
                            IN <<ItemOf(d)>> \o asSeq[S \ {d}]
                 IN buf' = IF ok THEN [buf EXCEPT !.items = @ \o asSeq[new]] ELSE buf
  /\ UNCHANGED <<ff, cur, processed, page, status, terr>>
  /\ UNCHANGED envVars
  /\ UNCHANGED convVars
  /\ UNCHANGED writeVars
  /\ UNCHANGED signVars
  /\ UNCHANGED <<loopVar, snap, lock, pass, gerr, ret>>

\* lines 1414-1434: the deferred actors are looked up in the accounts
\* collection, with `ff.IRI = deferredItems` as filter (line 1419, kept in
\* actorsIRI); what comes back is matched on copies of the moderation ops
DeferredActors(t) ==
  /\ pc[t] = "deferActors"
  /\ pc' = [pc EXCEPT ![t] = "pass"]
  /\ pass' = [pass EXCEPT ![t] = 1]
  /\ fetches' = [fetches EXCEPT ![t] = IF buf.deferredActors = {} THEN @ ELSE @ + 1]
  /\ buf' = IF buf.deferredActors = {} THEN buf
            ELSE [buf EXCEPT !.actorsIRI = {d.id : d \in buf.deferredItems}]
  /\ UNCHANGED <<ff, cur, processed, page, status, terr>>
  /\ UNCHANGED envVars
  /\ UNCHANGED convVars
  /\ UNCHANGED writeVars
  /\ UNCHANGED signVars
  /\ UNCHANGED <<loopVar, snap, lock, gerr, ret>>

\* The secondary passes of lines 1435-1458, in order, and the buffer each one
\* takes and gives back.
PassField(p) ==
  CASE p = 1 -> "items"         \* loadItemsAuthors
    [] p = 2 -> "items"         \* loadItemsVotes
    [] p = 3 -> "follows"       \* loadFollowsAuthors
    [] p = 4 -> "accounts"      \* loadAccountsAuthors
    [] OTHER -> "moderations"   \* loadModerationDetails

AfterPass(p) == IF p = 5 THEN "lock" ELSE "pass"

\* a secondary pass is called with a shared buffer: an empty one comes back at
\* once (lines 707, 753, 795, 868, 937), otherwise a remote lookup goes out
PassCall(t) ==
  /\ pc[t] = "pass"
  /\ IF Len(buf[PassField(pass[t])]) = 0
       THEN /\ pc' = [pc EXCEPT ![t] = AfterPass(pass[t])]
            /\ pass' = [pass EXCEPT ![t] = IF @ = 5 THEN 5 ELSE @ + 1]
            /\ UNCHANGED <<snap, fetches>>
       ELSE /\ pc' = [pc EXCEPT ![t] = "passret"]
            /\ snap' = [snap EXCEPT ![t] = buf]
            /\ fetches' = [fetches EXCEPT ![t] = @ + 1]
            /\ UNCHANGED pass
  /\ UNCHANGED <<ff, cur, processed, page, status, terr>>
  /\ UNCHANGED envVars
  /\ UNCHANGED convVars
  /\ UNCHANGED writeVars
  /\ UNCHANGED signVars
  /\ UNCHANGED <<loopVar, buf, lock, gerr, ret>>

\* the pass returns: its slice is stored back into the shared buffer, and an
\* error of the lookup is returned by the task (lines 1436-1457);
\* loadModerationDetails makes a second lookup when its first one succeeded
PassRet(t) ==
  /\ pc[t] = "passret"
  /\ \E ok \in BOOLEAN, second \in BOOLEAN :
       /\ (pass[t] # 5 => second)
       /\ buf' = [buf EXCEPT ![PassField(pass[t])] = snap[t][PassField(pass[t])]]
       /\ fetches' = [fetches EXCEPT ![t] = IF pass[t] = 5 /\ ok THEN @ + 1 ELSE @]
       /\ IF ok /\ second
            THEN /\ pc' = [pc EXCEPT ![t] = AfterPass(pass[t])]
                 /\ pass' = [pass EXCEPT ![t] = IF @ = 5 THEN 5 ELSE @ + 1]
                 /\ UNCHANGED terr
            ELSE /\ pc' = [pc EXCEPT ![t] = "exit"]
                 /\ terr' = [terr EXCEPT ![t] = "secondary"]
                 /\ UNCHANGED pass
  /\ snap' = [snap EXCEPT ![t] = EmptyBuf]
  /\ UNCHANGED <<ff, cur, processed, page, status>>
  /\ UNCHANGED envVars
  /\ UNCHANGED convVars
  /\ UNCHANGED writeVars
  /\ UNCHANGED signVars
  /\ UNCHANGED <<loopVar, lock, gerr, ret>>

\* line 1459
Lock(t) ==
  /\ pc[t] = "lock"
  /\ lock = 0
  /\ lock' = t
  /\ pc' = [pc EXCEPT ![t] = "merge"]
  /\ UNCHANGED <<ff, cur, processed, page, status, fetches, terr>>
  /\ UNCHANGED envVars
  /\ UNCHANGED convVars
  /\ UNCHANGED writeVars
  /\ UNCHANGED signVars
  /\ UNCHANGED <<loopVar, buf, snap, pass, gerr, ret>>

MatchFirst(s, l) ==
  LET hit == {k \in 1..Len(s) : s[k].link = l}
  IN IF hit = {} THEN <<>> ELSE <<s[CHOOSE k \in hit : \A m \in hit : k <= m]>>

MatchAll(s, l) == SelectSeq(s, LAMBDA x : x.link = l)

\* lines 1462-1492: what one relation adds to the result
ForRelation(b, rel) ==
  MatchFirst(b.items, rel) \o MatchAll(b.follows, rel) \o MatchAll(b.accounts, rel)
    \o MatchAll(b.moderations, rel) \o MatchAll(b.appreciations, rel)

RECURSIVE MergeRelations(_, _)
MergeRelations(b, rels) ==
  IF rels = {} THEN <<>>
  ELSE LET r == CHOOSE x \in rels : \A y \in rels : x[1] <= y[1]
       IN ForRelation(b, r[2]) \o MergeRelations(b, rels \ {r})

\* lines 1461-1493: under the lock, every relation in the shared map is
\* matched against the shared buffers and the matches are appended to result
Merge(t) ==
  /\ pc[t] = "merge"
  /\ buf' = [buf EXCEPT !.result = @ \o MergeRelations(buf, buf.relations)]
  /\ pc' = [pc EXCEPT ![t] = "unlock"]
  /\ UNCHANGED <<ff, cur, processed, page, status, fetches, terr>>
  /\ UNCHANGED envVars
  /\ UNCHANGED convVars
  /\ UNCHANGED writeVars
  /\ UNCHANGED signVars
  /\ UNCHANGED <<loopVar, snap, lock, pass, gerr, ret>>

\* lines 1777-1781: the one fetch of a LoadAccounts task, made with the filter
\* set the range variable names when the task gets to run
LoadAccountsFetch(t) ==
  /\ pc[t] = "spawned"
  /\ op = "LoadAccounts"
  /\ cur' = [cur EXCEPT ![t] = loopVar]
  /\ fetches' = [fetches EXCEPT ![t] = @ + 1]
  /\ \/ /\ page' = [page EXCEPT ![t] =
                      ServePage(op, loopVar, ff[loopVar].Next, total[loopVar], nextOnLast)]
        /\ pc' = [pc EXCEPT ![t] = "accum"]
        /\ UNCHANGED terr
     \/ /\ terr' = [terr EXCEPT ![t] = "fetch"]
        /\ pc' = [pc EXCEPT ![t] = "exit"]
        /\ UNCHANGED page
  /\ UNCHANGED <<ff, processed, status>>
  /\ UNCHANGED envVars
  /\ UNCHANGED convVars
  /\ UNCHANGED writeVars
  /\ UNCHANGED signVars
  /\ UNCHANGED aggVars

\* line 1794, lines 508-519: loadAccountsVotes is handed the shared accounts
\* and walks the outbox of each one; a failed walk is logged only
LoadAccountsVotesCall(t) ==
  /\ pc[t] = "lavotes"
  /\ snap' = [snap EXCEPT ![t] = buf]
  /\ fetches' = [fetches EXCEPT ![t] = @ + Len(buf.accounts)]
  /\ pc' = [pc EXCEPT ![t] = "lavotesret"]
  /\ UNCHANGED <<ff, cur, processed, page, status, terr>>
  /\ UNCHANGED envVars
  /\ UNCHANGED convVars
  /\ UNCHANGED writeVars
  /\ UNCHANGED signVars
  /\ UNCHANGED <<loopVar, buf, lock, pass, gerr, ret>>

\* line 1794: what loadAccountsVotes returns is stored into the shared accounts
LoadAccountsVotesRet(t) ==
  /\ pc[t] = "lavotesret"
  /\ buf' = [buf EXCEPT !.accounts = snap[t].accounts]
  /\ snap' = [snap EXCEPT ![t] = EmptyBuf]
  /\ pc' = [pc EXCEPT ![t] = "exit"]
  /\ UNCHANGED <<ff, cur, processed, page, status, fetches, terr>>
  /\ UNCHANGED envVars
  /\ UNCHANGED convVars
  /\ UNCHANGED writeVars
  /\ UNCHANGED signVars
  /\ UNCHANGED <<loopVar, lock, pass, gerr, ret>>

\* the function handed to g.Go returns: the deferred Unlock runs, and the
\* errgroup keeps the first error it is given
TaskExit(t) ==
  /\ op \in AggOps
  /\ \/ pc[t] \in {"exit", "unlock"}
     \/ pc[t] = "walked" /\ (op # "ActorCollection" \/ terr[t] # NoErr)
  /\ pc' = [pc EXCEPT ![t] = "exited"]
  /\ lock' = IF pc[t] = "unlock" THEN 0 ELSE lock
  /\ gerr' = IF gerr = 0 /\ terr[t] # NoErr THEN t ELSE gerr
  /\ page' = [page EXCEPT ![t] = NoPage]
  /\ status' = [status EXCEPT ![t] = FALSE]
  /\ processed' = [processed EXCEPT ![t] = 0]
  /\ UNCHANGED <<ff, cur, fetches, terr>>
  /\ UNCHANGED envVars
  /\ UNCHANGED convVars
  /\ UNCHANGED writeVars
  /\ UNCHANGED signVars
  /\ UNCHANGED <<loopVar, buf, snap, pass, ret>>

\* orderRenderables: a stable sort, newest first
RECURSIVE InsertDesc(_, _)
InsertDesc(s, x) ==
  IF s = <<>> THEN <<x>>
  ELSE IF x.ts > Head(s).ts THEN <<x>> \o s
  ELSE <<Head(s)>> \o InsertDesc(Tail(s), x)

RECURSIVE orderRenderables(_)
orderRenderables(r) ==
  IF r = <<>> THEN <<>>
  ELSE InsertDesc(orderRenderables(SubSeq(r, 1, Len(r) - 1)), r[Len(r)])

\* lines 1200-1205: result holds the address of the range variable it once per
\* item, so every element is the item the loop visited last
ObjectsResult(items) == [k \in 1..Len(items) |-> items[Len(items)]]

\* g.Wait() and what each aggregation returns after it: accounts lines
\* 1163-1166, objects 1189-1192, Objects 1196-1216, ActorCollection
\* 1497-1515, LoadAccounts 1799-1802
Returned(o, b, failed, kind) ==
  LET out == CASE o = "accounts" -> IF failed = 0 THEN b.accounts ELSE <<>>
               [] o = "objects" -> IF failed = 0 THEN b.items ELSE <<>>
               [] o = "Objects" -> IF failed = 0 THEN ObjectsResult(b.items) ELSE <<>>
               [] o = "ActorCollection" ->
                    IF failed = 0 THEN orderRenderables(b.result) ELSE <<>>
               [] OTHER -> b.accounts
  IN [err |-> kind, by |-> failed, items |-> out,
      total |-> IF o = "LoadAccounts" THEN b.count ELSE Len(out)]

Wait ==
  /\ op \in AggOps
  /\ loopVar = Len(ff)
  /\ \A t \in Tasks : pc[t] = "exited"
  /\ ret = Pending
  /\ ret' = Returned(op, buf, gerr, IF gerr = 0 THEN NoErr ELSE terr[gerr])
  /\ UNCHANGED <<ff, cur, processed, page, status, fetches, terr, pc>>
  /\ UNCHANGED envVars
  /\ UNCHANGED convVars
  /\ UNCHANGED writeVars
  /\ UNCHANGED signVars
  /\ UNCHANGED <<loopVar, buf, snap, lock, pass, gerr>>

InitAgg ==
  /\ op \in AggOps
  /\ \E n \in 1..MaxFilters :
       /\ ff \in [1..n -> FilterSets]
       /\ total \in [1..n -> 0..MaxTotal]
  /\ op \in {"ActorCollection", "LoadAccounts"} => \A i \in DOMAIN ff : ff[i].MaxItems = 0
  /\ ff0 = ff
  /\ nextOnLast \in BOOLEAN
  /\ op = "ActorCollection" => ~nextOnLast
  /\ withheld = FALSE
  /\ clk = NoClock
  /\ loopVar = 0
  /\ pc = [t \in Tasks |-> "idle"]
  /\ cur = [t \in Tasks |-> 0]
  /\ processed = [t \in Tasks |-> 0]
  /\ page = [t \in Tasks |-> NoPage]
  /\ status = [t \in Tasks |-> FALSE]
  /\ fetches = [t \in Tasks |-> 0]
  /\ terr = [t \in Tasks |-> NoErr]
  /\ buf = EmptyBuf
  /\ snap = [t \in Tasks |-> EmptyBuf]
  /\ lock = 0
  /\ pass = [t \in Tasks |-> 0]
  /\ gerr = 0
  /\ ret = Pending
  /\ req = NoRequest
  /\ wpc = "idle"
  /\ calls = <<>>
  /\ res = "pending"
  /\ exists = NoVote
  /\ sent = <<>>
  /\ SignIdle
  /\ ConvIdle

NextAgg ==
  \/ Spawn
  \/ \E t \in Tasks : TaskStart(t)
  \/ \E t \in Tasks : Fetch(t)
  \/ \E t \in Tasks : AccumRead(t)
  \/ \E t \in Tasks : AccumWrite(t)
  \/ \E t \in Tasks : Advance(t)
  \/ \E t \in Tasks : DeferredItems(t)
  \/ \E t \in Tasks : DeferredActors(t)
  \/ \E t \in Tasks : PassCall(t)
  \/ \E t \in Tasks : PassRet(t)
  \/ \E t \in Tasks : Lock(t)
  \/ \E t \in Tasks : Merge(t)
  \/ \E t \in Tasks : LoadAccountsFetch(t)
  \/ \E t \in Tasks : LoadAccountsVotesCall(t)
  \/ \E t \in Tasks : LoadAccountsVotesRet(t)
  \/ \E t \in Tasks : TaskExit(t)
  \/ Wait

SpecAgg == InitAgg /\ [][NextAgg]_vars

\* ----------------------------------------------------------- write operations
WriteOps ==
  {"SaveItem", "SaveVote", "SaveAccount", "FollowAccount", "SendFollowResponse",
   "BlockAccount", "BlockItem", "ReportAccount", "ReportItem"}

\* operations that take the acting account by value
ByValueOps == {"FollowAccount", "BlockAccount", "BlockItem", "ReportAccount", "ReportItem"}

ModerationOps == {"BlockAccount", "BlockItem", "ReportAccount", "ReportItem"}

\* An account as a write operation sees it: whether the pointer is nil and
\* what its IsValid, IsLogged and HasMetadata methods answer.  A nil account
\* answers FALSE to all three.
NilAccount ==
  [IsNil |-> TRUE, IsValid |-> FALSE, IsLogged |-> FALSE, HasMetadata |-> FALSE]

Accounts ==
  {NilAccount} \cup
  [IsNil : {FALSE}, IsValid : BOOLEAN, IsLogged : BOOLEAN, HasMetadata : BOOLEAN]

\* The second party of SaveVote (the item voted on) and of SendFollowResponse
\* (the account that asked to follow).
Parties == [IsValid : BOOLEAN, HasMetadata : BOOLEAN]

GoodParty == [IsValid |-> TRUE, HasMetadata |-> TRUE]

\* The calls a caller can make.  acting is it.SubmittedBy for SaveItem,
\* v.SubmittedBy for SaveVote, a.CreatedBy for SaveAccount, f.Object for
\* SendFollowResponse and er for the others; deleted and hasId say whether the
\* entity saved carries the deleted flag and an identifier; mentions whether
\* the item names accounts; exists whether the endpoint already holds a vote
\* of the submitter and prior the weight of that vote; weight the weight of
\* the vote to save; accept the answer SendFollowResponse is to give;
\* attributed whether the reported entity names an author.
Requests ==
  {r \in [op : WriteOps, acting : Accounts, party : Parties, deleted : BOOLEAN,
          hasId : BOOLEAN, mentions : BOOLEAN, exists : BOOLEAN,
          attributed : BOOLEAN, weight : {-1, 0, 1}, prior : {-1, 1},
          accept : BOOLEAN] :
     /\ r.op # "SaveVote" => r.weight = 1
     /\ (r.op # "SaveVote" \/ ~r.exists) => r.prior = 1
     /\ r.op # "SendFollowResponse" => r.accept
     /\ r.op \in ByValueOps => ~r.acting.IsNil
     /\ r.op \notin {"SaveVote", "SendFollowResponse"} => r.party = GoodParty
     /\ r.op \notin {"SaveItem", "SaveAccount"} => ~r.deleted /\ r.hasId
     /\ r.op # "SaveItem" => ~r.mentions
     /\ r.op # "SaveVote" => ~r.exists
     /\ r.op \notin ModerationOps => ~r.attributed}

\* lines 1646-1648
accountValidForC2S(a) == a.IsValid

Goes(to) == [res |-> "pending", next |-> to]
Fails(with) == [res |-> with, next |-> "done"]

\* SaveItem after the recipients are collected (lines 1733-1751): deleting an
\* item without identifier calls err.Error() on a nil error
SaveItemBuilt(r) ==
  IF r.deleted /\ ~r.hasId THEN Fails("panic") ELSE Goes("send")

\* What each write operation does before its first remote call.
Validated(r) ==
  LET a == r.acting
  IN CASE r.op = "SaveVote" ->                                \* lines 1519-1528
            IF ~a.IsValid \/ ~a.HasMetadata THEN Fails("error")
            ELSE IF ~r.party.IsValid \/ ~r.party.HasMetadata THEN Fails("error")
            ELSE IF ~accountValidForC2S(a) THEN Fails("unauthorized")
            ELSE Goes("votes")
       [] r.op = "SaveItem" ->                                \* lines 1667-1680
            IF a.IsNil \/ ~a.HasMetadata THEN Fails("error")
            ELSE IF ~accountValidForC2S(a) THEN Fails("unauthorized")
            ELSE IF r.mentions THEN Goes("mentions")
            ELSE SaveItemBuilt(r)
       [] r.op = "SaveAccount" ->                             \* lines 1958-1992
            IF r.deleted /\ ~r.hasId THEN Fails("notfound") ELSE Goes("send")
       [] r.op = "FollowAccount" ->                           \* lines 1922-1926
            IF ~accountValidForC2S(a) THEN Fails("unauthorized") ELSE Goes("send")
       [] r.op = "SendFollowResponse" ->                      \* lines 1881-1905
            IF ~r.party.IsValid THEN Fails("error")
            ELSE IF ~accountValidForC2S(a)
              THEN IF a.IsNil THEN Fails("panic") ELSE Fails("unauthorized")
            ELSE IF ~r.party.HasMetadata \/ ~a.HasMetadata THEN Fails("panic")
            ELSE Goes("send")
       [] OTHER ->                                            \* lines 2132-2149
            IF ~accountValidForC2S(a) THEN Fails("unauthorized")
            ELSE IF r.attributed THEN Goes("author")
            ELSE Goes("send")

readVars == <<ff, walkVars, envVars, aggVars>>

Validate ==
  /\ wpc = "called"
  /\ wpc' = Validated(req).next
  /\ res' = Validated(req).res
  /\ UNCHANGED <<req, calls, exists, sent>>
  /\ UNCHANGED readVars
  /\ UNCHANGED convVars
  /\ UNCHANGED signVars

\* SaveVote, lines 1530-1548: the votes of the submitter on the item are
\* fetched; a failed fetch is logged and taken as no vote
LoadVotes ==
  /\ wpc = "votes"
  /\ calls' = Append(calls, "Collection")
  /\ \E ok \in BOOLEAN :
       /\ exists' = IF ok /\ req.exists
                      THEN [HasMetadata |-> TRUE, Weight |-> req.prior] ELSE NoVote
       /\ wpc' = IF ok /\ req.exists THEN "undo" ELSE "send"
  /\ UNCHANGED <<req, res, sent>>
  /\ UNCHANGED readVars
  /\ UNCHANGED convVars
  /\ UNCHANGED signVars

\* SaveVote, lines 1558-1563: an existing vote is undone first; a failure of
\* that is logged only
UndoVote ==
  /\ wpc = "undo"
  /\ calls' = Append(calls, "ToOutbox")
  /\ \E ok \in BOOLEAN :
       sent' = Append(sent, [act |-> [type |-> "Undo", object |-> "vote"], ok |-> ok])
  /\ wpc' = "send"
  /\ UNCHANGED <<req, res, exists>>
  /\ UNCHANGED readVars
  /\ UNCHANGED convVars
  /\ UNCHANGED signVars

\* SaveItem, lines 1700-1714: the accounts mentioned are looked up with
\* LoadAccounts; a failure is logged only
LoadMentions ==
  /\ wpc = "mentions"
  /\ calls' = Append(calls, "Actors")
  /\ wpc' = SaveItemBuilt(req).next
  /\ res' = SaveItemBuilt(req).res
  /\ UNCHANGED <<req, exists, sent>>
  /\ UNCHANGED readVars
  /\ UNCHANGED convVars
  /\ UNCHANGED signVars

\* moderationActivity, lines 2108-2117: the author of the reported entity is
\* fetched for the CC list; a failure leaves the list as it is
LoadReportedAuthor ==
  /\ wpc = "author"
  /\ calls' = Append(calls, "Actor")
  /\ wpc' = "send"
  /\ UNCHANGED <<req, res, exists, sent>>
  /\ UNCHANGED readVars
  /\ UNCHANGED convVars
  /\ UNCHANGED signVars

\* SaveVote, lines 1550-1573: the activity starts as an Undo without object,
\* takes the found vote's identifier as object, and becomes a Like or Dislike
\* of the item when the weight asks for one and the found vote does not
\* already give it
VoteActivity(w, e) ==
  IF w > 0 /\ e.Weight <= 0 THEN [type |-> "Like", object |-> "item"]
  ELSE IF w < 0 /\ e.Weight >= 0 THEN [type |-> "Dislike", object |-> "item"]
  ELSE [type |-> "Undo", object |-> IF e.HasMetadata THEN "vote" ELSE "none"]

\* mutant (C14): the identifier test of Create and Update the wrong way round
SaveActivitySwapped(r) ==
  IF r.deleted THEN [type |-> "Delete", object |-> "id"]
  ELSE IF r.hasId THEN [type |-> "Create", object |-> "bodyWithId"]
  ELSE [type |-> "Update", object |-> "body"]

\* SaveItem lines 1727-1750 and SaveAccount lines 1982-1998: Delete of the
\* identifier alone, Create of an entity without identifier, Update otherwise
SaveActivity(r) ==
  IF r.deleted THEN [type |-> "Delete", object |-> "id"]
  ELSE IF ~r.hasId THEN [type |-> "Create", object |-> "body"]
  ELSE [type |-> "Update", object |-> "bodyWithId"]

\* The activity each write operation hands to ToOutbox last.
Activity(r, e) ==
  CASE r.op = "SaveVote" -> VoteActivity(r.weight, e)
    [] r.op \in {"SaveItem", "SaveAccount"} -> SaveActivity(r)
    [] r.op = "FollowAccount" -> [type |-> "Follow", object |-> "account"]
    [] r.op = "SendFollowResponse" ->
         [type |-> IF r.accept THEN "Accept" ELSE "Reject", object |-> "follow"]
    [] r.op \in {"BlockAccount", "BlockItem"} -> [type |-> "Block", object |-> "target"]
    [] OTHER -> [type |-> "Flag", object |-> "target"]

\* the activity is posted to the outbox and the answer decoded: SaveVote lines
\* 1574-1581, SaveItem 1752-1767, SendFollowResponse 1909-1918, FollowAccount
\* 1943-1952, SaveAccount 2001-2019, moderation 2157-2161
Send ==
  /\ wpc = "send"
  /\ calls' = Append(calls, "ToOutbox")
  /\ \E ok \in BOOLEAN, decoded \in BOOLEAN :
       /\ sent' = Append(sent, [act |-> Activity(req, exists), ok |-> ok])
       /\ (decoded \/ (ok /\ req.op \in {"SaveItem", "SaveAccount"}))
       /\ IF ~ok THEN res' = "transport" /\ wpc' = "done"
          ELSE IF ~decoded THEN res' = "decode" /\ wpc' = "done"
          ELSE IF req.op = "SaveVote" /\ Activity(req, exists).object = "none"
            THEN res' = "panic" /\ wpc' = "done"
          ELSE IF req.op = "SaveItem" /\ ~req.deleted
            THEN res' = res /\ wpc' = "authors"
          ELSE res' = "ok" /\ wpc' = "done"
  /\ UNCHANGED <<req, exists>>
  /\ UNCHANGED readVars
  /\ UNCHANGED convVars
  /\ UNCHANGED signVars

\* SaveItem, lines 1763-1766: the authors of the saved item are loaded and the
\* error of that pass is what SaveItem returns
LoadAuthors ==
  /\ wpc = "authors"
  /\ calls' = Append(calls, "Actors")
  /\ \E ok \in BOOLEAN : res' = IF ok THEN "ok" ELSE "secondary"
  /\ wpc' = "done"
  /\ UNCHANGED <<req, exists, sent>>
  /\ UNCHANGED readVars
  /\ UNCHANGED convVars
  /\ UNCHANGED signVars

InitWrite ==
  /\ req \in Requests
  /\ op = req.op
  /\ wpc = "called"
  /\ calls = <<>>
  /\ res = "pending"
  /\ exists = NoVote
  /\ sent = <<>>
  /\ SignIdle
  /\ ConvIdle
  /\ ff = <<>>
  /\ ff0 = <<>>
  /\ total = <<>>
  /\ nextOnLast = FALSE
  /\ withheld = FALSE
  /\ clk = NoClock
  /\ loopVar = 0
  /\ pc = <<>>
  /\ cur = <<>>
  /\ processed = <<>>
  /\ page = <<>>
  /\ status = <<>>
  /\ fetches = <<>>
  /\ terr = <<>>
  /\ buf = EmptyBuf
  /\ snap = <<>>
  /\ lock = 0
  /\ pass = <<>>
  /\ gerr = 0
  /\ ret = Pending

NextWrite ==
  \/ Validate
  \/ LoadVotes
  \/ UndoVote
  \/ LoadMentions
  \/ LoadReportedAuthor
  \/ Send
  \/ LoadAuthors

SpecWrite == InitWrite /\ [][NextWrite]_vars

\* -------------------------------------------------------------------- signing
MaxHandlers == 2     \* request handlers running at the same time

KeyKinds == {"none", "id-rsa", "id-rsa-bad", "id-ecdsa", "other"}

\* An account as the signing functions see it: what IsValid and IsLogged
\* answer, whether Metadata.OAuth.Token is set, and Metadata.Key: absent, an
\* id-rsa key that parses, one that does not, an id-ecdsa key, any other id.
SignAccounts(ids, keys) ==
  [id : ids, IsValid : BOOLEAN, IsLogged : BOOLEAN, token : BOOLEAN, key : keys]

\* a request before it is signed
Unsigned == [header |-> 0, err |-> NoErr]

\* mutant (C17): the logged-in test left out
withAccountC2SNoLogged(a, r) ==
  IF ~a.IsValid THEN r
  ELSE IF ~a.token THEN r
  ELSE [r EXCEPT !.header = a.id]

\* lines 420-437: the function withAccountC2S returns, applied to a request
withAccountC2S(a, r) ==
  IF ~a.IsValid \/ ~a.IsLogged THEN r
  ELSE IF ~a.token THEN r
  ELSE [r EXCEPT !.header = a.id]

\* lines 439-474: "absent" is the nil function
withAccountS2S(a) ==
  IF ~a.IsValid \/ ~a.IsLogged THEN "absent"
  ELSE IF a.key = "none" THEN "absent"
  ELSE IF a.key = "id-rsa-bad" THEN "absent"
  ELSE IF a.key = "id-ecdsa" THEN "absent"
  ELSE IF a.key = "id-rsa" THEN "signer"
  ELSE "signer-without-key"

Handlers == DOMAIN hs

\* lines 415-418, reached from HandleSubmit (frontend.go lines 1024-1027) for
\* a logged-in session account and from LoadAccountDetails (line 1806) for
\* the account being loaded: the client's signing function is replaced
WithAccount(h) ==
  /\ hpc[h] = "start"
  /\ hpc' = [hpc EXCEPT ![h] = "bound"]
  /\ signFn' = IF hs[h].op = "LoadAccountDetails" THEN hs[hs[h].target].acct
               ELSE IF hs[h].acct.IsLogged THEN hs[h].acct
               ELSE signFn
  /\ UNCHANGED <<hs, wire, s2s>>
  /\ UNCHANGED readVars
  /\ UNCHANGED convVars
  /\ UNCHANGED writeVars

\* the request of the handler's operation goes out (SaveItem's ToOutbox,
\* frontend.go line 1033; the collection fetches of lines 1814-1824), signed
\* by the function the client holds at that moment
SendRequest(h) ==
  /\ hpc[h] = "bound"
  /\ hpc' = [hpc EXCEPT ![h] = "done"]
  /\ LET out == IF signFn = NoSigner THEN Unsigned
                ELSE withAccountC2S(signFn, Unsigned)
     IN wire' = Append(wire, [by |-> h, signer |-> signFn, header |-> out.header,
                              err |-> out.err])
  /\ UNCHANGED <<hs, signFn, s2s>>
  /\ UNCHANGED readVars
  /\ UNCHANGED convVars
  /\ UNCHANGED writeVars

\* the signer for federated requests is built for the handler's account
BuildS2S(h) ==
  /\ s2s[h] = "pending"
  /\ s2s' = [s2s EXCEPT ![h] = withAccountS2S(hs[h].acct)]
  /\ UNCHANGED <<hs, signFn, hpc, wire>>
  /\ UNCHANGED readVars
  /\ UNCHANGED convVars
  /\ UNCHANGED writeVars

ReadIdle ==
  /\ op = "none"
  /\ ff = <<>>
  /\ ff0 = <<>>
  /\ total = <<>>
  /\ nextOnLast = FALSE
  /\ withheld = FALSE
  /\ clk = NoClock
  /\ loopVar = 0
  /\ pc = <<>>
  /\ cur = <<>>
  /\ processed = <<>>
  /\ page = <<>>
  /\ status = <<>>
  /\ fetches = <<>>
  /\ terr = <<>>
  /\ buf = EmptyBuf
  /\ snap = <<>>
  /\ lock = 0
  /\ pass = <<>>
  /\ gerr = 0
  /\ ret = Pending

WriteIdle ==
  /\ req = NoRequest
  /\ wpc = "idle"
  /\ calls = <<>>
  /\ res = "pending"
  /\ exists = NoVote
  /\ sent = <<>>

\* handlers of concurrent HTTP requests, each for its own session account
InitSign ==
  /\ ReadIdle
  /\ WriteIdle
  /\ ConvIdle
  /\ \E n \in 1..MaxHandlers :
       /\ hs \in [1..n -> [op : {"HandleSubmit", "LoadAccountDetails"},
                           acct : SignAccounts(1..n, {"none"}),
                           target : 1..n]]
       /\ \A h \in 1..n : hs[h].acct.id = h
       /\ \A h \in 1..n : hs[h].op = "HandleSubmit" => hs[h].target = h
  /\ signFn = NoSigner
  /\ hpc = [h \in Handlers |-> "start"]
  /\ wire = <<>>
  /\ s2s = [h \in Handlers |-> "none"]

NextSign ==
  \/ \E h \in Handlers : WithAccount(h)
  \/ \E h \in Handlers : SendRequest(h)

SpecSign == InitSign /\ [][NextSign]_vars

\* one account of any kind, bound to the client and used to sign
InitSigner ==
  /\ ReadIdle
  /\ WriteIdle
  /\ ConvIdle
  /\ hs \in [1..1 -> [op : {"HandleSubmit", "LoadAccountDetails"},
                      acct : SignAccounts({1}, KeyKinds), target : {1}]]
  /\ signFn = NoSigner
  /\ hpc = [h \in Handlers |-> "start"]
  /\ wire = <<>>
  /\ s2s = [h \in Handlers |-> "pending"]

NextSigner ==
  \/ \E h \in Handlers : WithAccount(h)
  \/ \E h \in Handlers : SendRequest(h)
  \/ \E h \in Handlers : BuildS2S(h)

SpecSigner == InitSigner /\ [][NextSigner]_vars

\* ------------------------------------------------------ visibility filter
\* One object on its way through a read operation: the endpoint serves it, the
\* operation decodes it, applies the filter it has, and returns what is left.
MaxGenerators == 2   \* generator filters of one filter set

\* whom an object or activity is addressed to: the public collection, the
\* account the read is made for, another account
Audience == {"public", "reader", "other"}

\* ob.Generator: none, this instance (Instance.BaseURL), another instance
Generators == {"nil", "local", "remote"}

nilIRI == "-"

\* the ways an object reaches the caller of a read operation
ReadPaths == {"LoadItem", "Objects", "ActorCollection", "ActorCollectionLink"}

GeneratorFilters ==
  UNION {[1..n -> {nilIRI, "local", "remote"}] : n \in 0..MaxGenerators}

\* loadRecipients: private unless To or CC hold the public collection
Private(to) == "public" \notin to

\* Item.FromActivityPub of an embedded object, and of a Create whose object is
\* a reference: the recipients are those of the activity, and i.pub is the
\* reference, which pub.ToObject converts or not.
DecodeEntry(e) ==
  IF e.path = "ActorCollectionLink"
    THEN [private |-> Private(e.actTo), generator |-> "nil", isObject |-> e.converts]
    ELSE [private |-> Private(e.to), generator |-> e.generator, isObject |-> TRUE]

validRecipients(i, f) == ~("public" \in f.Recipients /\ i.private)

\* the loop over f.Generator: "keep", "drop", or "none" when it ends undecided
RECURSIVE generatorLoop(_, _)
generatorLoop(gen, gs) ==
  IF gs = <<>> THEN "none"
  ELSE IF gen = "nil" THEN generatorLoop(gen, Tail(gs))
  ELSE IF Head(gs) = nilIRI THEN (IF gen = "local" THEN "drop" ELSE "keep")
  ELSE IF Head(gs) = gen THEN "keep"
  ELSE generatorLoop(gen, Tail(gs))

validFederated(i, f) ==
  /\ i.isObject
  /\ LET r == generatorLoop(i.generator, f.Generator)
     IN IF r = "none" THEN i.generator = "nil" ELSE r = "keep"

validItem(i, f) == validRecipients(i, f) /\ validFederated(i, f)

\* The filter each read operation applies to a decoded object: LoadItem and
\* Objects apply none; ActorCollection applies validItem to an embedded object
\* and, for a referenced one, to the item decoded from the Create.
PostFilter(path, i, f) ==
  IF path \in {"ActorCollection", "ActorCollectionLink"} THEN validItem(i, f) ELSE TRUE

ReadDecode ==
  /\ rd.pc = "served"
  /\ rd' = [rd EXCEPT !.pc = "decoded", !.item = DecodeEntry(rd.entry)]
  /\ UNCHANGED readVars
  /\ UNCHANGED writeVars
  /\ UNCHANGED signVars
  /\ UNCHANGED <<rt, call>>

ReadFilter ==
  /\ rd.pc = "decoded"
  /\ rd' = [rd EXCEPT !.pc = "filtered",
                      !.keep = PostFilter(rd.entry.path, rd.item, rd.f)]
  /\ UNCHANGED readVars
  /\ UNCHANGED writeVars
  /\ UNCHANGED signVars
  /\ UNCHANGED <<rt, call>>

\* A kept object is returned; a kept reference is looked up with r.objects and
\* what comes back is appended to the items as it is.
ReadReturn ==
  /\ rd.pc = "filtered"
  /\ rd' = [rd EXCEPT !.pc = "returned",
                      !.out = IF rd.keep
                                THEN <<[to |-> rd.entry.to,
                                        generator |-> rd.entry.generator]>>
                                ELSE <<>>]
  /\ UNCHANGED readVars
  /\ UNCHANGED writeVars
  /\ UNCHANGED signVars
  /\ UNCHANGED <<rt, call>>

InitRead ==
  /\ ReadIdle
  /\ WriteIdle
  /\ SignIdle
  /\ rt = NoTrip
  /\ call = NoCall
  /\ \E path \in ReadPaths, to \in SUBSET Audience, gen \in Generators,
        actTo \in SUBSET Audience, conv \in BOOLEAN,
        rcp \in SUBSET {"public", "reader"}, gs \in GeneratorFilters :
       /\ path # "ActorCollectionLink" => (actTo = to /\ conv)
       /\ path = "LoadItem" => (rcp = {} /\ gs = <<>>)
       /\ rd = [pc |-> "served",
                entry |-> [path |-> path, to |-> to, generator |-> gen,
                           actTo |-> actTo, converts |-> conv],
                f |-> [Recipients |-> rcp, Generator |-> gs],
                item |-> [private |-> FALSE, generator |-> "nil", isObject |-> FALSE],
                keep |-> FALSE,
                out |-> <<>>]

NextRead ==
  \/ ReadDecode
  \/ ReadFilter
  \/ ReadReturn

SpecRead == InitRead /\ [][NextRead]_vars

\* ------------------------------------------------------- item conversion
\* One item encoded with loadAPItem into a fresh object and decoded back.
MimeTypeMarkdown == "text/markdown"
MimeTypeHTML == "text/html"
MimeTypeText == "text/plain"
MimeTypeURL == "application/url"

MimeTypes == {MimeTypeMarkdown, MimeTypeHTML, MimeTypeText, MimeTypeURL}

Titles == {"", "title"}

\* short bodies: none, plain words, one with a character that HTML escapes,
\* an address
Bodies == {"", "some words", "1 > 0", "http://example.com/a"}

\* the items SaveItem is handed; hash tells whether the item has a hash yet
Items ==
  [Title : Titles, Data : Bodies, MimeType : MimeTypes, Deleted : BOOLEAN,
   Hash : BOOLEAN]

NoIRI == [set |-> FALSE, val |-> ""]
IRI(v) == [set |-> TRUE, val |-> v]

\* a new(pub.Object)
NewObject ==
  [Type |-> "", URL |-> NoIRI, Name |-> <<>>, MediaType |-> "", Content |-> <<>>,
   Source |-> [MediaType |-> "", Content |-> <<>>]]

\* Markdown renders the body to HTML
Markdown(d) == "<p>" \o d \o "</p>"

\* bluemonday's UGCPolicy leaves plain text alone and writes the characters
\* HTML reserves as entities
Sanitize(d) == IF d = "1 > 0" THEN "1 &gt; 0" ELSE d

\* A body as the count of line 154 sees it: tokens separated by one separator
\* each.  strings.Count adds up the spaces, the tabs, the "\n" and the "\r\n"
\* of the body, so that a "\r\n" is counted twice.
Separators == {"space", "tab", "lf", "crlf"}

Counted(sep) == IF sep = "crlf" THEN 2 ELSE 1

wordCount(text) ==
  IF text.tokens = 0 THEN 0 ELSE (text.tokens - 1) * Counted(text.sep)

ArticleWords == 300

ObjectType(text) == IF wordCount(text) > ArticleWords THEN "Article" ELSE "Note"

\* the shape of the bodies of Bodies
Shape(d) ==
  [tokens |-> CASE d = "" -> 0
                [] d = "some words" -> 2
                [] d = "1 > 0" -> 3
                [] OTHER -> 1,
   sep |-> "space"]

\* The body of loadAPItem up to its two returns, text being the shape of
\* item.Data.  The Tombstone built for a deleted item is assigned to the
\* function's own parameter and the function returns before it names the
\* object: the caller's object stays as filled so far.
loadAPItemOf(item, text) ==
  LET typed == IF item.MimeType = MimeTypeURL
                 THEN [NewObject EXCEPT !.Type = "Page", !.URL = IRI(item.Data)]
                 ELSE [NewObject EXCEPT
                         !.Type = ObjectType(text),
                         !.URL = IF item.Hash THEN IRI("permalink") ELSE NoIRI]
      filled == CASE item.MimeType = MimeTypeMarkdown ->
                       [typed EXCEPT
                          !.Source.MediaType = MimeTypeMarkdown,
                          !.MediaType = MimeTypeHTML,
                          !.Source.Content = IF item.Data # "" THEN <<item.Data>> ELSE @,
                          !.Content = IF item.Data # ""
                                        THEN <<Markdown(item.Data)>> ELSE @]
                  [] item.MimeType \in {MimeTypeText, MimeTypeHTML} ->
                       [typed EXCEPT !.MediaType = item.MimeType,
                                     !.Content = <<item.Data>>]
                  [] OTHER -> typed
  IN IF item.Deleted THEN filled
     ELSE [filled EXCEPT !.Name = IF item.Title # "" THEN <<item.Title>> ELSE @]

loadAPItem(item) == loadAPItemOf(item, Shape(item.Data))

First(vals) == IF vals = <<>> THEN "" ELSE vals[1]

\* FromArticle: title, body and MIME kind of an Article, Note, Document or Page
FromArticle(a) ==
  LET asURL == Len(a.Content) = 0 /\ a.URL.set /\ a.URL.val # ""
      mime == IF asURL THEN MimeTypeURL
              ELSE IF a.MediaType # "" THEN a.MediaType ELSE MimeTypeHTML
      data == IF asURL THEN a.URL.val ELSE First(a.Content)
      fromSource == Len(a.Source.Content) > 0 /\ a.Source.MediaType # ""
  IN [Title |-> First(a.Name),
      Data |-> IF fromSource THEN Sanitize(First(a.Source.Content)) ELSE data,
      MimeType |-> IF fromSource THEN a.Source.MediaType ELSE mime,
      Deleted |-> FALSE]

\* Item.FromActivityPub of an object: only a Tombstone decodes to a deleted item
FromActivityPub(it) ==
  IF it.Type \in {"Article", "Note", "Document", "Page"} THEN FromArticle(it)
  ELSE [Title |-> "", Data |-> "", MimeType |-> "", Deleted |-> it.Type = "Tombstone"]

Encode ==
  /\ rt.pc = "start"
  /\ rt' = [rt EXCEPT !.pc = "encoded", !.o = loadAPItem(rt.item)]
  /\ UNCHANGED readVars
  /\ UNCHANGED writeVars
  /\ UNCHANGED signVars
  /\ UNCHANGED <<rd, call>>

Decode ==
  /\ rt.pc = "encoded"
  /\ rt' = [rt EXCEPT !.pc = "decoded", !.back = FromActivityPub(rt.o)]
  /\ UNCHANGED readVars
  /\ UNCHANGED writeVars
  /\ UNCHANGED signVars
  /\ UNCHANGED <<rd, call>>

InitTrip ==
  /\ ReadIdle
  /\ WriteIdle
  /\ SignIdle
  /\ rd = NoRead
  /\ call = NoCall
  /\ \E item \in Items :
       rt = [pc |-> "start", item |-> item, o |-> NewObject,
             back |-> [Title |-> "", Data |-> "", MimeType |-> "", Deleted |-> FALSE]]

NextTrip ==
  \/ Encode
  \/ Decode

SpecTrip == InitTrip /\ [][NextTrip]_vars

\* ---------------------------------------------------------- note or article
MaxTokens == 303   \* tokens in the body of an encoded item

\* the items whose body has up to MaxTokens tokens
Texts == [tokens : 0..MaxTokens, sep : Separators]

LongItem(mime, text) ==
  [Title |-> "title", Data |-> IF text.tokens = 0 THEN "" ELSE "body",
   MimeType |-> mime, Deleted |-> FALSE, Hash |-> TRUE]

EncodeLong ==
  /\ call.pc = "called"
  /\ call.fn = "loadAPItem"
  /\ call' = [call EXCEPT
                !.pc = "returned",
                !.out = loadAPItemOf(LongItem(call.arg.mime, call.arg.text),
                                     call.arg.text)]
  /\ UNCHANGED readVars
  /\ UNCHANGED writeVars
  /\ UNCHANGED signVars
  /\ UNCHANGED <<rd, rt>>

\* ----------------------------------------------------------- vote decoder
\* What an activity names as its object or actor: nothing, a reference, or an
\* embedded object; id is what GetLink gives ("" for an object without ID).
WireRefs ==
  {[kind |-> "nil", id |-> ""]}
    \cup [kind : {"link", "object"}, id : {"", "iri"}]

VoteTypes == {"Like", "Dislike", "Undo"}

\* the activities Vote.FromActivityPub is handed
VoteActivities ==
  [type : VoteTypes \cup {"Create"}, id : {"", "act"}, object : WireRefs,
   actor : {r \in WireRefs : r.kind # "object"}]

ZeroVote == [err |-> FALSE, panic |-> FALSE, Weight |-> 0, IRI |-> "", OriginalIRI |-> ""]

VoteWeight(t) ==
  CASE t = "Like" -> 1
    [] t = "Dislike" -> 0 - 1
    [] OTHER -> 0

\* Vote.FromActivityPub of an activity that is not a reference.  An activity
\* of another type leaves the vote as it was.  For an Undo the reference to the
\* original comes from act.Object.GetLink(), a call on a nil interface when
\* the activity has no object.
VoteFromActivityPub(act) ==
  IF act.type \notin VoteTypes THEN ZeroVote
  ELSE IF act.type = "Undo" /\ act.object.kind = "nil"
    THEN [ZeroVote EXCEPT !.panic = TRUE, !.IRI = act.id]
  ELSE [ZeroVote EXCEPT
          !.Weight = VoteWeight(act.type),
          !.IRI = act.id,
          !.OriginalIRI = IF act.type = "Undo" THEN act.object.id ELSE ""]

DecodeVote ==
  /\ call.pc = "called"
  /\ call.fn = "Vote.FromActivityPub"
  /\ call' = [call EXCEPT !.pc = "returned", !.out = VoteFromActivityPub(call.arg)]
  /\ UNCHANGED readVars
  /\ UNCHANGED writeVars
  /\ UNCHANGED signVars
  /\ UNCHANGED <<rd, rt>>

\* every Init of a function call starts from here
CallIdle ==
  /\ ReadIdle
  /\ WriteIdle
  /\ SignIdle
  /\ rd = NoRead
  /\ rt = NoTrip

\* --------------------------------------------------- parent and origin decoder
MaxChain == 3   \* ancestors an object names in InReplyTo

\* The objects whose Context and InReplyTo are decoded: chain lists the
\* ancestors from the immediate parent to the root, embedded tells how many of
\* them, from the parent on, are embedded objects that carry the rest of the
\* chain as their own InReplyTo (the others are references); single tells
\* whether InReplyTo is one item instead of a collection; context is the
\* identifier in Context, 0 for none.
RepliedObjects ==
  {o \in [type : {"Note", "Tombstone"},
          context : {0, MaxChain + 1},
          chain : {[k \in 1..n |-> k] : n \in 0..MaxChain},
          embedded : 0..(MaxChain - 1),
          single : BOOLEAN] :
     /\ o.embedded <= Len(o.chain)
     /\ o.single => Len(o.chain) = 1 \/ o.embedded > 0}

\* FromArticle lines 348-374 and the Tombstone case lines 574-602: OP from
\* Context; Parent from the first element of InReplyTo (or from InReplyTo when
\* it is one item); OP, when still nil, is that parent.  parents is the chain
\* i.Parent, i.Parent.Parent, ... that results.
RECURSIVE ParentsOf(_, _, _)
ParentsOf(context, chain, embedded) ==
  LET fromContext == context
      parents == IF chain = <<>> THEN <<>>
                 ELSE IF embedded > 0
                   THEN <<chain[1]>> \o ParentsOf(0, Tail(chain), embedded - 1).parents
                   ELSE <<chain[1]>>
  IN [OP |-> IF fromContext # 0 THEN fromContext
             ELSE IF chain # <<>> THEN chain[1] ELSE 0,
      parents |-> parents]

DecodeParents ==
  /\ call.pc = "called"
  /\ call.fn = "FromArticle"
  /\ call' = [call EXCEPT
                !.pc = "returned",
                !.out = ParentsOf(call.arg.context, call.arg.chain, call.arg.embedded)]
  /\ UNCHANGED readVars
  /\ UNCHANGED writeVars
  /\ UNCHANGED signVars
  /\ UNCHANGED <<rd, rt>>

\* ------------------------------------------------------ deleted item decoder
\* What is decoded as an item: a Tombstone, a Note, a reference, or nothing;
\* times are 0 for the zero time.
WireObjects ==
  [kind : {"Note", "Tombstone", "link", "nil"},
   id : {"", "iri"},
   published : {0, 1}, updated : {0, 2}, deleted : {0, 3},
   attributedTo : {"nil", "author"},
   content : {"", "body"}]

\* a Tombstone by itself, or a Delete activity around an object
DeletedInputs ==
  {[wrap |-> w, object |-> o] : w \in {"none", "Delete"}, o \in
     {x \in WireObjects :
        /\ x.kind \in {"link", "nil"} =>
             /\ x.published = 0 /\ x.updated = 0
             /\ x.attributedTo = "nil" /\ x.content = ""
        /\ x.kind = "nil" => x.id = ""
        /\ x.kind # "Tombstone" => x.deleted = 0
        /\ x.kind = "Tombstone" => x.attributedTo = "nil" /\ x.content = ""}}

\* a new(Item)
ZeroItem ==
  [err |-> FALSE, Hash |-> "", SubmittedAt |-> 0, UpdatedAt |-> 0,
   SubmittedBy |-> "nil", Data |-> "", Deleted |-> FALSE]

\* Item.Delete marks the item deleted
Delete(i) == [i EXCEPT !.Deleted = TRUE]

\* Item.FromActivityPub of an object that is no activity: a nil item is an
\* error, a reference gives the hash, a Note goes through FromArticle, a
\* Tombstone gives hash and times, is marked deleted and gets the anonymous
\* account as author.
ItemFromObject(o) ==
  CASE o.kind = "nil" -> [ZeroItem EXCEPT !.err = TRUE]
    [] o.kind = "link" -> [ZeroItem EXCEPT !.Hash = o.id]
    [] o.kind = "Note" ->
         [ZeroItem EXCEPT !.Hash = o.id, !.Data = o.content,
                          !.SubmittedAt = o.published, !.UpdatedAt = o.updated,
                          !.SubmittedBy = o.attributedTo]
    [] OTHER ->
         [Delete([ZeroItem EXCEPT !.Hash = o.id, !.SubmittedAt = o.published,
                                  !.UpdatedAt = o.deleted])
            EXCEPT !.SubmittedBy = "anonymous"]

\* the Delete case: the object is decoded, then the item is marked deleted
ItemFromDelete(in) ==
  IF in.wrap = "Delete" THEN Delete(ItemFromObject(in.object))
  ELSE ItemFromObject(in.object)

DecodeDeleted ==
  /\ call.pc = "called"
  /\ call.fn = "Item.FromActivityPub"
  /\ call' = [call EXCEPT !.pc = "returned", !.out = ItemFromDelete(call.arg)]
  /\ UNCHANGED readVars
  /\ UNCHANGED writeVars
  /\ UNCHANGED signVars
  /\ UNCHANGED <<rd, rt>>

\* ----------------------------------------------------------- accountsEqual
\* the accounts that are compared: hash and handle, "" for none
ComparedAccounts == [Hash : {"", "h1", "h2"}, Handle : {"", "alice", "bob"}]

accountsEqual(a1, a2) ==
  \/ a1.Hash = a2.Hash
  \/ (Len(a1.Handle) + Len(a2.Handle) > 0 /\ a1.Handle = a2.Handle)

CompareAccounts ==
  /\ call.pc = "called"
  /\ call.fn = "accountsEqual"
  /\ call' = [call EXCEPT !.pc = "returned",
                          !.out = accountsEqual(call.arg[1], call.arg[2])]
  /\ UNCHANGED readVars
  /\ UNCHANGED writeVars
  /\ UNCHANGED signVars
  /\ UNCHANGED <<rd, rt>>

\* ---------------------------------------------------- handlerErrorResponse
MaxErrors == 2   \* entries in the "errors" list of an error body

HttpErrors == [Code : {400, 403, 404, 500}, Message : {"", "message"}]

\* the bodies of error responses: ones that do not unmarshal, and ones that
\* do, with the list of errors they hold
ErrorBodies ==
  [parses : {FALSE}, kind : {"empty", "truncated", "html"}, Errors : {<<>>}]
    \cup [parses : {TRUE}, kind : {"json"},
          Errors : UNION {[1..n -> HttpErrors] : n \in 0..MaxErrors}]

NilError == [kind |-> "nil", Code |-> 0, Message |-> ""]

\* what the function logs and what it returns
handlerErrorResponse(body) ==
  IF ~body.parses
    THEN [log |-> <<"Unable to unmarshal error response">>, err |-> NilError]
  ELSE IF Len(body.Errors) = 0
    THEN [log |-> <<>>, err |-> NilError]
  ELSE [log |-> <<>>,
        err |-> [kind |-> "status", Code |-> body.Errors[1].Code,
                 Message |-> body.Errors[1].Message]]

HandleErrorResponse ==
  /\ call.pc = "called"
  /\ call.fn = "handlerErrorResponse"
  /\ call' = [call EXCEPT !.pc = "returned", !.out = handlerErrorResponse(call.arg)]
  /\ UNCHANGED readVars
  /\ UNCHANGED writeVars
  /\ UNCHANGED signVars
  /\ UNCHANGED <<rd, rt>>

\* ------------------------------------------- decoding a Create or an Update

ActorRef == "actor"

\* the actor of an activity: absent, a reference, or an embedded Person
WireActors == {"nil", "link", "Person"}

\* a Create or an Update around a Note, a reference or nothing, with the
\* activity's own times
CreateActivities ==
  [type : {"Create", "Update"},
   actor : WireActors,
   published : {0, 5}, updated : {0, 6},
   object : {x \in WireObjects :
               /\ x.kind \in {"Note", "link", "nil"}
               /\ x.deleted = 0
               /\ x.kind \in {"link", "nil"} =>
                    /\ x.published = 0 /\ x.updated = 0
                    /\ x.attributedTo = "nil" /\ x.content = ""
               /\ x.kind = "nil" => x.id = ""}]

\* a nil *Account
NoAccount == [set |-> FALSE, Hash |-> "", ID |-> ""]

\* Hash.IsValid: the hash is not empty
HashIsValid(h) == h # ""

\* Account.FromActivityPub: a nil receiver returns at once, a nil item is an
\* error, a reference gives the hash only when the account has no valid one
\* and replaces the metadata, an embedded actor goes through FromActor
AccountFromActivityPub(a, it) ==
  IF ~a.set THEN a
  ELSE CASE it = "nil" -> a
         [] it = "link" ->
              [a EXCEPT !.Hash = IF HashIsValid(a.Hash) THEN a.Hash ELSE ActorRef,
                        !.ID = ActorRef]
         [] OTHER -> [a EXCEPT !.Hash = ActorRef, !.ID = ActorRef]

\* the author FromArticle leaves in the item: the account of AttributedTo,
\* a nil pointer when the object has none
AuthorOf(i) ==
  IF i.SubmittedBy = "nil" THEN NoAccount
  ELSE [set |-> TRUE, Hash |-> i.SubmittedBy, ID |-> i.SubmittedBy]

ZeroCreated ==
  [err |-> FALSE, panic |-> FALSE, Hash |-> "", SubmittedAt |-> 0,
   UpdatedAt |-> 0, SubmittedBy |-> NoAccount, AuthorURI |-> ""]

\* the Create/Update case of Item.FromActivityPub: the object is decoded and
\* its error returned; then i.SubmittedBy.FromActivityPub(act.Actor), whose
\* error is dropped; then Metadata.AuthorURI = act.Actor.GetLink(), a call on
\* a nil interface when the activity has no actor
ItemFromCreate(act) ==
  LET i == ItemFromObject(act.object)
      decoded == [ZeroCreated EXCEPT
                    !.err = i.err, !.Hash = i.Hash,
                    !.SubmittedAt = i.SubmittedAt, !.UpdatedAt = i.UpdatedAt,
                    !.SubmittedBy = AuthorOf(i),
                    !.AuthorURI = AuthorOf(i).ID]
  IN IF i.err THEN decoded
     ELSE IF act.actor = "nil" THEN [decoded EXCEPT !.panic = TRUE]
     ELSE [decoded EXCEPT
             !.SubmittedBy = AccountFromActivityPub(AuthorOf(i), act.actor),
             !.AuthorURI = ActorRef]

DecodeCreate ==
  /\ call.pc = "called"
  /\ call.fn = "Item.FromActivityPub of Create"
  /\ call' = [call EXCEPT !.pc = "returned", !.out = ItemFromCreate(call.arg)]
  /\ UNCHANGED readVars
  /\ UNCHANGED writeVars
  /\ UNCHANGED signVars
  /\ UNCHANGED <<rd, rt>>

\* ------------------------------------------------------ loading items' authors

\* the calls of loadItemsAuthors: no item, or two items whose author, updater,
\* To and CC refer to accounts by a hash, by a handle or by neither (without
\* metadata there is no To or CC); known are the accounts the remote
\* collection holds, ok is whether the lookup succeeds
AuthorInputs ==
  LET NoRef == [Hash |-> "", Handle |-> "", loaded |-> FALSE]
      AccountRefs == [Hash : {"", "h1", "h2"}, Handle : {"", "alice"},
                      loaded : {FALSE}]
      KnownAccounts == {[Hash |-> "h1", Handle |-> "alice", loaded |-> TRUE],
                        [Hash |-> "h2", Handle |-> "bob", loaded |-> TRUE]}
      AuthoredItems ==
        {i \in [id : {1}, SubmittedBy : AccountRefs,
                UpdatedBy : {NoRef, [NoRef EXCEPT !.Hash = "h2"]},
                HasMetadata : BOOLEAN,
                To : {<<>>, <<[NoRef EXCEPT !.Hash = "h1"]>>,
                      <<[NoRef EXCEPT !.Handle = "alice"]>>},
                CC : {<<>>, <<[NoRef EXCEPT !.Hash = "h2"]>>}] :
           ~i.HasMetadata => (i.To = <<>> /\ i.CC = <<>>)}
      SecondItems ==
        {[id |-> 2, SubmittedBy |-> r, UpdatedBy |-> NoRef,
          HasMetadata |-> FALSE, To |-> <<>>, CC |-> <<>>] :
           r \in {NoRef, [NoRef EXCEPT !.Hash = "h1"]}}
  IN {[items |-> <<>>, known |-> KnownAccounts, ok |-> TRUE]} \cup
     {[items |-> <<i, j>>, known |-> k, ok |-> ok] :
        i \in AuthoredItems, j \in SecondItems,
        k \in SUBSET KnownAccounts, ok \in BOOLEAN}

\* what r.accounts returns for fActors: the known accounts whose hash is in
\* fActors.IRI, the non-empty hashes of the valid authors and of the To and CC
\* recipients of the items
AuthorsFound(in) ==
  LET hashes == UNION {(IF HashIsValid(it.SubmittedBy.Hash)
                       THEN {it.SubmittedBy.Hash} ELSE {})
                    \cup {it.To[n].Hash : n \in 1..Len(it.To)}
                    \cup {it.CC[n].Hash : n \in 1..Len(it.CC)} :
                    it \in {in.items[k] : k \in 1..Len(in.items)}} \ {""}
  IN {a \in in.known : a.Hash \in hashes}

\* loadItemsAuthors: nothing to do without items or without hashes to look up;
\* a failed lookup returns the items and the error; otherwise every valid
\* author puts itself in the place of each valid reference with its hash
\* (Account.IsValid: the account has a hash; HashesEqual: the hashes are equal)
loadItemsAuthors(in) ==
  LET authors == AuthorsFound(in)
      Backfill(ref) ==
        LET found == {a \in authors :
                        /\ HashIsValid(a.Hash)
                        /\ HashIsValid(ref.Hash) /\ ref.Hash = a.Hash}
        IN IF found = {} THEN ref ELSE CHOOSE a \in found : TRUE
      NothingToLoad ==
        \A k \in 1..Len(in.items) :
          LET it == in.items[k]
          IN /\ ~HashIsValid(it.SubmittedBy.Hash)
             /\ \A n \in 1..Len(it.To) : it.To[n].Hash = ""
             /\ \A n \in 1..Len(it.CC) : it.CC[n].Hash = ""
  IN IF NothingToLoad THEN [items |-> in.items, err |-> FALSE]
     ELSE IF ~in.ok THEN [items |-> in.items, err |-> TRUE]
     ELSE [items |->
             [k \in 1..Len(in.items) |->
                LET it == in.items[k]
                IN [it EXCEPT
                      !.SubmittedBy = Backfill(it.SubmittedBy),
                      !.UpdatedBy = Backfill(it.UpdatedBy),
                      !.To = [n \in 1..Len(it.To) |-> Backfill(it.To[n])],
                      !.CC = [n \in 1..Len(it.CC) |-> Backfill(it.CC[n])]]],
           err |-> FALSE]

LoadItemsAuthors ==
  /\ call.pc = "called"
  /\ call.fn = "loadItemsAuthors"
  /\ call' = [call EXCEPT !.pc = "returned", !.out = loadItemsAuthors(call.arg)]
  /\ UNCHANGED readVars
  /\ UNCHANGED writeVars
  /\ UNCHANGED signVars
  /\ UNCHANGED <<rd, rt>>

\* -------------------------------------------------------- loading items' votes

\* the calls of loadItemsVotes: two items, and the vote activities the inbox
\* holds for them, newest first; fails is whether the first fetch fails
VoteInputs ==
  LET Votes == [type : {"Like", "Dislike"}, target : {"h1", "h2"}] \cup
               {[type |-> "Undo", target |-> ""]}
  IN [items : {<<[Hash |-> "h1", Score |-> s], [Hash |-> "h2", Score |-> 0]>> :
                 s \in {0, 5}},
      votes : UNION {[1..n -> Votes] : n \in 0..MaxTotal},
      fails : BOOLEAN]

\* the walk of loadItemsVotes from the page after tok on: the accumulator adds
\* the weight of every vote of the page to the items with the hash of its
\* target and answers true, and the loop goes on as LoadFromCollection decides
RECURSIVE VotesWalk(_, _, _, _)
VotesWalk(items, votes, tok, proc) ==
  LET col == ServePage("loadItemsVotes", 1, tok, Len(votes), FALSE)
      Added(h) == LET hit == {n \in 1..Len(col.items) :
                                votes[col.items[n].id].target = h}
                      ups == {n \in hit : VoteWeight(votes[col.items[n].id].type) = 1}
                      downs == {n \in hit : VoteWeight(votes[col.items[n].id].type) = 0 - 1}
                  IN Cardinality(ups) - Cardinality(downs)
      scored == [k \in 1..Len(items) |->
                   [items[k] EXCEPT !.Score = @ + Added(items[k].Hash)]]
      pn == getCollectionPrevNext(col)
  IN IF accumContinue(TRUE, pn.next, proc + Len(col.items), col)
       THEN VotesWalk(scored, votes, pn.next, proc + Len(col.items))
       ELSE scored

loadItemsVotes(in) ==
  IF in.fails THEN [items |-> in.items, err |-> TRUE]
  ELSE [items |-> VotesWalk(in.items, in.votes, 0, 0), err |-> FALSE]

LoadItemsVotes ==
  /\ call.pc = "called"
  /\ call.fn = "loadItemsVotes"
  /\ call' = [call EXCEPT !.pc = "returned", !.out = loadItemsVotes(call.arg)]
  /\ UNCHANGED readVars
  /\ UNCHANGED writeVars
  /\ UNCHANGED signVars
  /\ UNCHANGED <<rd, rt>>

\* ----------------------------------------------- recipients of a decoded item

\* the To and CC of a Create or an Update and of the object it embeds: the
\* public sentinel, an account, a followers collection
RecipientInputs ==
  LET Lists == {<<>>, <<"public">>, <<"h1">>, <<"h1", "public">>, <<"followers">>}
  IN [type : {"Create", "Update"}, to : Lists, cc : Lists,
      object : [kind : {"Note", "link"}, to : Lists, cc : Lists]]

\* Item.MakePrivate and Item.MakePublic set the visibility of the item
MakePrivate(i) == [i EXCEPT !.Private = TRUE]
MakePublic(i) == [i EXCEPT !.Private = FALSE]

\* loadRecipientsFrom: the public sentinel is noted and left out, every other
\* recipient becomes an account
loadRecipientsFrom(recipients) ==
  [accounts |-> SelectSeq(recipients, LAMBDA rec : rec # "public"),
   isPublic |-> \E n \in 1..Len(recipients) : recipients[n] = "public"]

\* mutant (C36): loadRecipients that leaves the visibility as it found it
loadRecipientsKeep(i, o) ==
  LET to == loadRecipientsFrom(o.to)
      cc == loadRecipientsFrom(o.cc)
      withTo == IF to.isPublic THEN MakePublic(i) ELSE i
      withCC == IF cc.isPublic THEN MakePublic(withTo) ELSE withTo
  IN [withCC EXCEPT !.To = to.accounts, !.CC = cc.accounts]

\* loadRecipients: the item is made private, To and CC are replaced by the
\* recipients of the object, and the item is made public when either holds
\* the public sentinel
loadRecipients(i, o) ==
  LET to == loadRecipientsFrom(o.to)
      cc == loadRecipientsFrom(o.cc)
      withTo == IF to.isPublic THEN MakePublic(MakePrivate(i)) ELSE MakePrivate(i)
      withCC == IF cc.isPublic THEN MakePublic(withTo) ELSE withTo
  IN [withCC EXCEPT !.To = to.accounts, !.CC = cc.accounts]

\* the recipients of the Create/Update case of Item.FromActivityPub: FromArticle
\* loads those of an embedded Note (a reference has none), then the case loads
\* those of the activity
DecodeRecipients ==
  /\ call.pc = "called"
  /\ call.fn = "loadRecipients"
  /\ LET zero == [Private |-> FALSE, To |-> <<>>, CC |-> <<>>]
         act == call.arg
         embedded == IF act.object.kind = "Note"
                       THEN loadRecipients(zero, act.object) ELSE zero
     IN call' = [call EXCEPT !.pc = "returned",
                             !.out = loadRecipients(embedded, act)]
  /\ UNCHANGED readVars
  /\ UNCHANGED writeVars
  /\ UNCHANGED signVars
  /\ UNCHANGED <<rd, rt>>

\* ------------------------------------------------- encoding the parent chain

\* the items an encoded item can have above it: parent is item.Parent, next
\* the Parent pointer of each of the MaxChain items (0 for nil; a pointer may
\* lead back to an item already passed), invalid the items that have no hash
ParentChains ==
  [parent : 0..MaxChain,
   next : [1..MaxChain -> 0..MaxChain],
   invalid : {{}, {1}}]

\* loadAPItem lines 231-255, one pass of the loop: without a parent there is
\* no loop; the identifier of a valid item is appended, the loop ends at an
\* item without parent and goes on to the parent otherwise.  seen is the items
\* passed so far; the loop is followed for MaxChain + 1 passes.
EncodeParents ==
  /\ call.pc = "called"
  /\ call.fn = "loadAPItem InReplyTo"
  /\ Len(call.out.seen) <= MaxChain
  /\ LET p == call.out.p
         repl == IF p \in call.arg.invalid
                   THEN call.out.repl ELSE Append(call.out.repl, p)
     IN call' = IF p = 0 THEN [call EXCEPT !.pc = "returned"]
                ELSE [call EXCEPT
                        !.pc = IF call.arg.next[p] = 0 THEN "returned" ELSE @,
                        !.out = [repl |-> repl, p |-> call.arg.next[p],
                                 seen |-> Append(call.out.seen, p)]]
  /\ UNCHANGED readVars
  /\ UNCHANGED writeVars
  /\ UNCHANGED signVars
  /\ UNCHANGED <<rd, rt>>

\* ------------------------------------------------------- one function call

\* one call of one of the functions above, with an argument of its domain
InitCall ==
  /\ CallIdle
  /\ \/ \E mime \in MimeTypes \ {MimeTypeURL}, text \in Texts :
          call = [pc |-> "called", fn |-> "loadAPItem",
                  arg |-> [mime |-> mime, text |-> text], out |-> NewObject]
     \/ \E act \in VoteActivities :
          call = [pc |-> "called", fn |-> "Vote.FromActivityPub", arg |-> act,
                  out |-> ZeroVote]
     \/ \E o \in RepliedObjects :
          call = [pc |-> "called", fn |-> "FromArticle", arg |-> o,
                  out |-> [OP |-> 0, parents |-> <<>>]]
     \/ \E in \in DeletedInputs :
          call = [pc |-> "called", fn |-> "Item.FromActivityPub", arg |-> in,
                  out |-> ZeroItem]
     \/ \E act \in CreateActivities :
          call = [pc |-> "called", fn |-> "Item.FromActivityPub of Create",
                  arg |-> act, out |-> ZeroCreated]
     \/ \E a1 \in ComparedAccounts, a2 \in ComparedAccounts :
          call = [pc |-> "called", fn |-> "accountsEqual", arg |-> <<a1, a2>>,
                  out |-> FALSE]
     \/ \E body \in ErrorBodies :
          call = [pc |-> "called", fn |-> "handlerErrorResponse", arg |-> body,
                  out |-> [log |-> <<>>, err |-> NilError]]
     \/ \E in \in AuthorInputs :
          call = [pc |-> "called", fn |-> "loadItemsAuthors", arg |-> in,
                  out |-> [items |-> <<>>, err |-> FALSE]]
     \/ \E in \in VoteInputs :
          call = [pc |-> "called", fn |-> "loadItemsVotes", arg |-> in,
                  out |-> [items |-> <<>>, err |-> FALSE]]
     \/ \E act \in RecipientInputs :
          call = [pc |-> "called", fn |-> "loadRecipients", arg |-> act,
                  out |-> [Private |-> FALSE, To |-> <<>>, CC |-> <<>>]]
     \/ \E chain \in ParentChains :
          call = [pc |-> "called", fn |-> "loadAPItem InReplyTo", arg |-> chain,
                  out |-> [repl |-> <<>>, p |-> chain.parent, seen |-> <<>>]]

NextCall ==
  \/ EncodeLong
  \/ DecodeVote
  \/ DecodeParents
  \/ DecodeDeleted
  \/ DecodeCreate
  \/ CompareAccounts
  \/ HandleErrorResponse
  \/ LoadItemsAuthors
  \/ LoadItemsVotes
  \/ DecodeRecipients
  \/ EncodeParents

SpecCall == InitCall /\ [][NextCall]_vars

\* ------------------------------------------------------------------ claims
IsPrefix(s, r) == Len(s) <= Len(r) /\ SubSeq(r, 1, Len(s)) = s

\* The accumulator is about to be handed an empty page after a page with entries.
EmptyPageAfterEntries(t) ==
  pc[t] = "accum" /\ Len(page[t].items) = 0 /\ processed[t] > 0

\* C5 as stated: every walk over a collection of declared total T served in
\* pages of PageSize issues at most ceil(T / PageSize) page fetches and never
\* hands the accumulator an empty page after a page with entries.
C5_WalkBoundAsStated ==
  \A t \in Tasks :
    /\ fetches[t] <= CeilDiv(total[cur[t]], PageSize)
    /\ ~EmptyPageAfterEntries(t)

\* C5 amended: a walk that starts at the head of the collection (empty
\* next-page token) issues at most max(1, ceil(T / PageSize)) page fetches
\* and never hands the accumulator an empty page after a page with entries.
C5_WalkBound ==
  \A t \in Tasks :
    ff0[cur[t]].Next = 0 =>
      /\ fetches[t] <= Max(1, CeilDiv(total[cur[t]], PageSize))
      /\ ~EmptyPageAfterEntries(t)

\* C5 witness: a walk from the head that ended without error after fetching
\* every page of a collection of more than one page.
C5_Witness ==
  \E t \in Tasks :
    /\ pc[t] = "done" /\ terr[t] = NoErr /\ ff0[cur[t]].Next = 0
    /\ fetches[t] >= 2 /\ fetches[t] = CeilDiv(total[cur[t]], PageSize)
    /\ processed[t] = total[cur[t]]

\* C6: after a page is processed the walk goes on to another fetch exactly
\* when the accumulator did not signal stop, the next-page token is not empty
\* and the counter differs from the declared total; otherwise it returns.
C6_ContinueIff ==
  \A t \in Tasks :
    LET more == /\ ~status[t]
                /\ ff[cur[t]].Next # 0
                /\ processed[t] # Count(page[t])
    IN /\ (pc[t] = "fetch" /\ fetches[t] > 0) => more
       /\ (pc[t] \in {"walked", "done"} /\ terr[t] = NoErr) => ~more
       /\ terr[t] # NoErr => pc[t] \in {"walked", "done"}

\* C6 witness: a walk about to fetch a second page, and one that returned
\* because the counter reached the declared total although a next token is set.
C6_Witness ==
  \E t \in Tasks :
    /\ pc[t] = "done" /\ terr[t] = NoErr /\ fetches[t] >= 2
    /\ ~status[t] /\ ff[cur[t]].Next # 0
    /\ processed[t] = Count(page[t])

\* C7: the step in which a fetch or the accumulator fails ends the walk: the
\* pagination tokens stay as the last processed page set them, what the
\* accumulator stored is kept, no further fetch is issued and the error is
\* what the walk returns.
C7_ErrorAborts ==
  [][\A t \in Tasks :
       terr'[t] # NoErr =>
         /\ ff' = ff
         /\ pc'[t] \in {"walked", "done"}
         /\ (terr[t] # NoErr => fetches'[t] = fetches[t])
         /\ IsPrefix(buf.items, buf'.items)
         /\ (pc'[t] = "done" => ret'.err = terr'[t])]_vars

\* C7 witness: a walk that failed on its second page and returned the error,
\* with the first page's entries stored and the first page's next token kept.
C7_Witness ==
  \E t \in Tasks :
    /\ pc[t] = "done" /\ terr[t] = "fetch" /\ ret.err = "fetch"
    /\ fetches[t] = 2 /\ processed[t] > 0
    /\ Len(buf.items) = processed[t]
    /\ ff[cur[t]].Next = ff0[cur[t]].Next + processed[t]

\* ------------------------------------------------------- aggregation claims
Returned_ == ret # Pending

\* The buffers task t is about to store into.
WritesTo(t) ==
  CASE pc[t] = "accwrite" ->
         LET add == Additions(op, page[t])
         IN {f \in {"accounts", "items", "follows", "moderations", "appreciations"} :
               add[f] # <<>>}
            \cup {f \in {"relations", "deferredItems", "deferredActors"} : add[f] # {}}
    [] pc[t] = "passret" -> {PassField(pass[t])}
    [] pc[t] = "merge" -> {"result"}
    [] OTHER -> {}

NonIncreasing(s) == \A k \in 1..(Len(s) - 1) : s[k].ts >= s[k + 1].ts

\* C1: when the walk or fetch of some filter set failed, the aggregation
\* returns an error of one of the failed tasks and returns no entities.
C1_ErrorReturnsNothing ==
  (Returned_ /\ \E t \in Tasks : terr[t] = "fetch") =>
    /\ ret.by \in Tasks
    /\ ret.err = terr[ret.by]
    /\ ret.err # NoErr
    /\ ret.items = <<>>

\* C1 witness: LoadAccounts returned the error of a failed fetch together with
\* the accounts another filter set's fetch had decoded.
C1_Witness ==
  /\ op = "LoadAccounts"
  /\ Returned_
  /\ ret.err = "fetch"
  /\ Len(ret.items) > 0

\* C2: in accounts, objects and ActorCollection with two or more filter sets a
\* task stores into a shared buffer only while it holds the merge lock, and no
\* two tasks are storing into the same buffer at the same time.
C2_WritesUnderLock ==
  (op \in {"accounts", "objects", "ActorCollection"} /\ Len(ff) >= 2) =>
    \A t \in Tasks :
      /\ WritesTo(t) # {} => lock = t
      /\ \A s \in Tasks \ {t} : WritesTo(t) \cap WritesTo(s) = {}

\* C2 witness: accounts returned without error after each of two walks fetched
\* one page with entries, and the returned list holds fewer accounts than the
\* two pages held.
C2_Witness ==
  /\ op = "accounts"
  /\ Returned_
  /\ ret.err = NoErr
  /\ Len(ff) = 2
  /\ cur = <<1, 2>>
  /\ \A t \in Tasks : fetches[t] = 1 /\ ff0[t].Next = 0 /\ total[t] >= 1
  /\ Len(ret.items) < Min(total[1], PageSize) + Min(total[2], PageSize)

\* C3: once the walk of one filter set has failed, no sibling task issues
\* another page fetch.
C3_FailureCancelsSiblings ==
  [][\A t \in Tasks : \A s \in Tasks \ {t} :
       (terr[t] = "fetch" /\ pc[s] \in {"spawned", "fetch"}) =>
         fetches'[s] = fetches[s]]_vars

\* C4: the i-th walk of an aggregation reads and updates filter set i only.
C4_WalkOwnsFilterSet ==
  op \in AggOps => \A t \in Tasks : cur[t] \in {0, t}

\* C4 witness: an aggregation over two filter sets returned after both of its
\* walks walked the second filter set and none walked the first.
C4_Witness ==
  /\ op \in AggOps
  /\ Returned_
  /\ Len(ff) = 2
  /\ cur = <<2, 2>>
  /\ \A t \in Tasks : fetches[t] >= 1
  /\ ff[1] = ff0[1]

\* C8: the list returned by ActorCollection, Objects and LoadAccounts is
\* ordered by non-increasing timestamp.
C8_ReturnedNewestFirst ==
  (op \in {"ActorCollection", "Objects", "LoadAccounts"} /\ Returned_) =>
    NonIncreasing(ret.items)

\* C8 witness: LoadAccounts returned without error a list in which an older
\* account comes before a newer one, each task having fetched its own filter set.
C8_Witness ==
  /\ op = "LoadAccounts"
  /\ Returned_
  /\ ret.err = NoErr
  /\ \A t \in Tasks : cur[t] = t
  /\ \E k \in 1..(Len(ret.items) - 1) : ret.items[k].ts < ret.items[k + 1].ts

\* C9: when a secondary pass of ActorCollection fails and every page fetch
\* succeeded, ActorCollection returns no error and the decoded entities.
C9_SecondaryFailureNotFatal ==
  (/\ op = "ActorCollection"
   /\ Returned_
   /\ \E t \in Tasks : terr[t] = "secondary"
   /\ \A t \in Tasks : terr[t] # "fetch") =>
    /\ ret.err = NoErr
    /\ (buf.result # <<>> => ret.items # <<>>)

\* C9 witness: ActorCollection returned the error of a failed secondary pass
\* and an empty list although its walks had decoded entities.
C9_Witness ==
  /\ op = "ActorCollection"
  /\ Returned_
  /\ ret.err = "secondary"
  /\ ret.items = <<>>
  /\ Len(buf.items) + Len(buf.follows) + Len(buf.accounts) > 0
  /\ \A t \in Tasks : terr[t] # "fetch"

\* C19: when ActorCollection over one filter set returns without error and a
\* page it read held a Like whose target no page embeds, the target of the Like
\* is among the deferred items and the item fetched for it is returned.
C19_LikeTargetDeferred ==
  (/\ op = "ActorCollection"
   /\ Len(ff) = 1
   /\ Returned_
   /\ ret.err = NoErr) =>
    \A k \in 1..Len(buf.appreciations) :
      LET target == LikeTarget(buf.appreciations[k].id)
      IN /\ target \in {d.id : d \in buf.deferredItems}
         /\ \E n \in 1..Len(ret.items) : ret.items[n].link = <<"obj", target>>

\* C19 witness: ActorCollection over one filter set read a single page holding
\* the Create of a Note and a Like, and returned the Note and the vote with no
\* error and without having deferred any item.
C19_Witness ==
  /\ op = "ActorCollection"
  /\ Len(ff) = 1
  /\ Returned_
  /\ ret.err = NoErr
  /\ total[1] = 2 /\ ff0[1].Next = 0
  /\ buf.deferredItems = {}
  /\ Len(buf.items) = 1 /\ Len(buf.appreciations) = 1
  /\ Len(ret.items) = 2

\* C10: a write operation whose acting account is invalid or not logged in
\* issues no remote call and returns an unauthorized error.
C10_InvalidActorRejected ==
  (req.op \in WriteOps /\ (~req.acting.IsValid \/ ~req.acting.IsLogged)) =>
    /\ calls = <<>>
    /\ (wpc = "done" => res = "unauthorized")

\* C10 witness: FollowAccount called with a valid account that is not logged
\* in posted its activity to the outbox and returned no error.
C10_Witness ==
  /\ req.op = "FollowAccount"
  /\ req.acting.IsValid
  /\ ~req.acting.IsLogged
  /\ wpc = "done"
  /\ res = "ok"
  /\ calls = <<"ToOutbox">>

\* ------------------------------------------------------------- write claims
Acts(s) == [k \in 1..Len(s) |-> s[k].act]

UndoOfVote == [type |-> "Undo", object |-> "vote"]
LikeOfItem == [type |-> "Like", object |-> "item"]

\* C11: SaveVote with weight +1 by a valid submitter who has a vote of weight
\* -1 on the item dispatches exactly an Undo of that vote and then a Like of
\* the item.
C11_UndoThenLike ==
  (/\ req.op = "SaveVote"
   /\ req.weight = 1 /\ req.exists /\ req.prior = -1
   /\ Validated(req).next # "done"
   /\ wpc = "done") =>
    Acts(sent) = <<UndoOfVote, LikeOfItem>>

\* C11 witness: such a SaveVote returned without error after the lookup found
\* the vote, having dispatched the Undo and then the Like.
C11_Witness ==
  /\ req.op = "SaveVote"
  /\ req.weight = 1 /\ req.exists /\ req.prior = -1
  /\ wpc = "done" /\ res = "ok"
  /\ exists.HasMetadata
  /\ Acts(sent) = <<UndoOfVote, LikeOfItem>>

\* C12: nothing is dispatched after a dispatch that failed, a write that had
\* a dispatch fail returns the transport error, and no SaveVote reports
\* success with the prior vote retracted and the new vote not recorded.
C12_DispatchFailureAborts ==
  /\ \A k \in 1..Len(sent) : ~sent[k].ok => k = Len(sent)
  /\ (wpc = "done" /\ \E k \in 1..Len(sent) : ~sent[k].ok) => res = "transport"
  /\ (req.op = "SaveVote" /\ wpc = "done" /\ res = "ok") => sent[Len(sent)].ok

\* C12 witness: SaveVote returned without error after its Undo failed and the
\* Like that followed was taken.
C12_Witness ==
  /\ req.op = "SaveVote"
  /\ wpc = "done" /\ res = "ok"
  /\ Len(sent) = 2
  /\ sent[1] = [act |-> UndoOfVote, ok |-> FALSE]
  /\ sent[2] = [act |-> LikeOfItem, ok |-> TRUE]

\* C13: every Undo that SaveVote dispatches has the identifier of an existing
\* vote of the submitter as its object.
C13_UndoNamesVote ==
  req.op = "SaveVote" =>
    \A k \in 1..Len(sent) : sent[k].act.type = "Undo" => sent[k].act.object = "vote"

\* C13 witness: SaveVote with weight 0 and no vote of the submitter on the
\* item dispatched a single Undo without object.
C13_Witness ==
  /\ req.op = "SaveVote"
  /\ req.weight = 0 /\ ~req.exists
  /\ Len(calls) = 2
  /\ Acts(sent) = <<[type |-> "Undo", object |-> "none"]>>

\* SaveItem got past the checks of its submitter (lines 1667-1680).
SubmitterAccepted(r) ==
  ~r.acting.IsNil /\ r.acting.HasMetadata /\ r.acting.IsValid

SaveItemReturnedOrSent == req.op = "SaveItem" /\ wpc \in {"authors", "done"}

\* C14 as stated: SaveItem dispatches exactly one activity: a Delete of the
\* identifier alone when the item is deleted, a Create of a body without
\* identifier when it is not deleted and has no identifier, an Update when it
\* is not deleted and has one.
C14_OneActivityAsStated ==
  (SaveItemReturnedOrSent /\ SubmitterAccepted(req)) =>
    Acts(sent) =
      << IF req.deleted THEN [type |-> "Delete", object |-> "id"]
         ELSE IF req.hasId THEN [type |-> "Update", object |-> "bodyWithId"]
         ELSE [type |-> "Create", object |-> "body"] >>

\* C14 amended: SaveItem with an accepted submitter dispatches nothing for a
\* deleted item without identifier, and otherwise exactly one activity: a
\* Delete of the identifier alone for a deleted item, a Create of a body
\* without identifier for an item without identifier, an Update for the rest.
C14_OneActivity ==
  (SaveItemReturnedOrSent /\ SubmitterAccepted(req)) =>
    Acts(sent) =
      IF req.deleted /\ ~req.hasId THEN <<>>
      ELSE IF req.deleted THEN << [type |-> "Delete", object |-> "id"] >>
      ELSE IF req.hasId THEN << [type |-> "Update", object |-> "bodyWithId"] >>
      ELSE << [type |-> "Create", object |-> "body"] >>

\* C14 witness: SaveItem of a new item returned without error after a Create
\* of a body without identifier, and nothing else, was dispatched.
C14_Witness ==
  /\ req.op = "SaveItem"
  /\ ~req.deleted /\ ~req.hasId
  /\ wpc = "done" /\ res = "ok"
  /\ sent = << [act |-> [type |-> "Create", object |-> "body"], ok |-> TRUE] >>

\* ----------------------------------------------------------- signing claims
\* C15: no operation changes the client's signing function after the client
\* is built, and every request that goes out carries no credentials or those
\* of the account of the handler that issued it.
C15_SignerFixed ==
  /\ [][signFn' = signFn]_vars
  /\ [](\A k \in 1..Len(wire) : wire[k].header \in {0, wire[k].by})

\* C15 witness: two handlers ran for two logged-in accounts holding tokens and
\* the request of one went out with the bearer token of the other.
C15_Witness ==
  /\ Len(hs) = 2
  /\ \A h \in Handlers : 
       /\ hs[h].op = "HandleSubmit"
       /\ hs[h].acct.IsValid /\ hs[h].acct.IsLogged /\ hs[h].acct.token
  /\ \E k \in 1..Len(wire) : wire[k].by = 1 /\ wire[k].header = 2

\* C16: for a valid, logged-in account whose key is of the unsupported kind
\* id-ecdsa, building the signer answers an unsupported-algorithm error and
\* never an absent signer.
C16_UnsupportedKeyIsError ==
  \A h \in Handlers :
    (/\ hs[h].acct.IsValid /\ hs[h].acct.IsLogged
     /\ hs[h].acct.key = "id-ecdsa"
     /\ s2s[h] \notin {"none", "pending"}) =>
      s2s[h] = "unsupported-algorithm"

\* C16 witness: the signer built for a valid, logged-in account with an
\* id-ecdsa key is absent.
C16_Witness ==
  \E h \in Handlers :
    /\ hs[h].acct.IsValid /\ hs[h].acct.IsLogged
    /\ hs[h].acct.key = "id-ecdsa"
    /\ s2s[h] = "absent"

\* C17: a request signed by the function bound to an account carries that
\* account's bearer token exactly when the account is valid, logged in and
\* holds a token; otherwise it goes out unchanged; signing returns no error.
C17_BearerIff ==
  \A k \in 1..Len(wire) :
    LET a == wire[k].signer
    IN a # NoSigner =>
         /\ wire[k].err = NoErr
         /\ wire[k].header =
              IF a.IsValid /\ a.IsLogged /\ a.token THEN a.id ELSE Unsigned.header

\* C17 witness: a request went out with the bearer token of the valid,
\* logged-in account the function was bound to, and another went out
\* unchanged, signed by the function bound to a logged-in account that is not
\* valid.
C17_Witness ==
  /\ \E k \in 1..Len(wire) :
       /\ wire[k].signer # NoSigner
       /\ wire[k].header = wire[k].signer.id
  /\ \E k \in 1..Len(wire) :
       /\ wire[k].signer # NoSigner
       /\ wire[k].signer.IsLogged /\ ~wire[k].signer.IsValid /\ wire[k].signer.token
       /\ wire[k] = [by |-> wire[k].by, signer |-> wire[k].signer,
                     header |-> 0, err |-> NoErr]

\* ---------------------------------------------------------- visibility claims
\* whether the generator filters of f name the generator gen or any generator
\* other than this instance
GeneratorPermitted(f, gen) ==
  \E k \in 1..Len(f.Generator) : f.Generator[k] \in {nilIRI, gen}

\* C18: no read operation returns a private object to a reader that is not
\* among its recipients, nor an object generated by another instance unless
\* the generator filters of the filter set permit it.
C18_VisibleOnly ==
  rd.pc = "returned" =>
    \A k \in 1..Len(rd.out) :
      /\ Private(rd.out[k].to) => "reader" \in rd.out[k].to
      /\ rd.out[k].generator = "remote" => GeneratorPermitted(rd.f, "remote")

\* C18 witness: Objects, called with a filter set that asks for public
\* recipients and names no generator, returned an object of another instance
\* that is addressed to another account only.
C18_Witness ==
  /\ rd.pc = "returned"
  /\ rd.entry.path = "Objects"
  /\ rd.f = [Recipients |-> {"public"}, Generator |-> <<>>]
  /\ rd.out = <<[to |-> {"other"}, generator |-> "remote"]>>

\* ---------------------------------------------------------- conversion claims
SameContent(a, b) ==
  /\ a.Title = b.Title
  /\ a.Data = b.Data
  /\ a.MimeType = b.MimeType
  /\ a.Deleted = b.Deleted

\* C20: an item encoded with loadAPItem and decoded back with
\* Item.FromActivityPub has the title, body, MIME kind and deletion state it
\* had, for every MIME kind, empty or not, deleted or not.
C20_RoundTrip ==
  rt.pc = "decoded" => SameContent(rt.back, rt.item)

\* C20 witness: a deleted html item with a title and a body came back as an
\* item that is not deleted and has no title.
C20_Witness ==
  /\ rt.pc = "decoded"
  /\ rt.item.Deleted
  /\ rt.item.MimeType = MimeTypeHTML
  /\ rt.item.Title = "title" /\ rt.item.Data = "some words"
  /\ rt.back = [Title |-> "", Data |-> "some words", MimeType |-> MimeTypeHTML,
                Deleted |-> FALSE]

\* -------------------------------------------------------------- decoder claims
VoteDecoded ==
  /\ call.pc = "returned"
  /\ call.fn = "Vote.FromActivityPub"
  /\ call.arg.type \in VoteTypes

\* C21: a decoded Like has weight 1, a Dislike weight -1 and an Undo weight 0;
\* the vote keeps the identifier of the decoded activity, and the decoding of
\* every Undo ends with a non-empty reference to the original activity.
C21_VoteDecoded ==
  VoteDecoded =>
    /\ ~call.out.panic
    /\ call.out.Weight = (CASE call.arg.type = "Like" -> 1
                            [] call.arg.type = "Dislike" -> 0 - 1
                            [] OTHER -> 0)
    /\ call.out.IRI = call.arg.id
    /\ call.arg.type = "Undo" => call.out.OriginalIRI # ""

\* C21 witness: the decoding of an Undo that has an identifier and an actor
\* but no object ended in a nil dereference.
C21_Witness ==
  /\ VoteDecoded
  /\ call.arg.type = "Undo"
  /\ call.arg.id = "act"
  /\ call.arg.object.kind = "nil"
  /\ call.arg.actor.kind = "link"
  /\ call.out.panic

ParentsDecoded == call.pc = "returned" /\ call.fn = "FromArticle"

\* C22: a decoded item that has a parent and whose wire object had no Context
\* has as origin the root of its parent chain, the last of Parent,
\* Parent.Parent, ..., also when the decoded parent has a parent itself.
C22_OriginIsRoot ==
  (ParentsDecoded /\ call.out.parents # <<>> /\ call.arg.context = 0) =>
    call.out.OP = call.out.parents[Len(call.out.parents)]

\* C22 witness: a Note without Context whose InReplyTo holds an embedded
\* parent that names a parent of its own was decoded with a parent chain of
\* two items and the immediate parent as origin.
C22_Witness ==
  /\ ParentsDecoded
  /\ call.arg.type = "Note"
  /\ call.arg.context = 0
  /\ call.arg.chain = <<1, 2>>
  /\ call.arg.embedded = 1
  /\ call.out = [OP |-> 1, parents |-> <<1, 2>>]

DeletedDecoded ==
  /\ call.pc = "returned"
  /\ call.fn = "Item.FromActivityPub"
  /\ call.out.Deleted
  /\ \/ call.arg.wrap = "none" /\ call.arg.object.kind = "Tombstone"
     \/ call.arg.wrap = "Delete" /\ call.arg.object.kind \in {"Note", "Tombstone"}

\* C23: an item decoded as deleted, from a Tombstone or from a Delete activity
\* with an embedded former object, has the hash and the times of the wire
\* object, the anonymous account as author, and no body.
C23_DeletedItemCleared ==
  DeletedDecoded =>
    /\ call.out.Hash = call.arg.object.id
    /\ call.out.SubmittedAt = call.arg.object.published
    /\ call.out.UpdatedAt \in {call.arg.object.updated, call.arg.object.deleted}
    /\ call.out.SubmittedBy = "anonymous"
    /\ call.out.Data = ""

\* C23 witness: a Delete activity with an embedded Note that has an author and
\* a body was decoded as a deleted item with that author and that body.
C23_Witness ==
  /\ DeletedDecoded
  /\ call.arg.wrap = "Delete"
  /\ call.arg.object.kind = "Note"
  /\ call.arg.object.id = "iri"
  /\ call.out.SubmittedBy = "author"
  /\ call.out.Data = "body"

\* ------------------------------------------------------------ equality claims
Compared == call.pc = "returned" /\ call.fn = "accountsEqual"

\* C24: accountsEqual(a1, a2) is true exactly when the hashes are equal, or
\* both hashes are absent and the handles match; accounts with different
\* non-empty hashes are never equal, and the result does not depend on the
\* order of the arguments.
C24_EqualIffHashOrHandle ==
  Compared =>
    LET a1 == call.arg[1]
        a2 == call.arg[2]
    IN /\ call.out <=> (\/ a1.Hash = a2.Hash
                        \/ (a1.Hash = "" /\ a2.Hash = "" /\ a1.Handle = a2.Handle))
       /\ (a1.Hash # "" /\ a2.Hash # "" /\ a1.Hash # a2.Hash) => ~call.out
       /\ call.out = accountsEqual(a2, a1)

\* C24 witness: two accounts with different non-empty hashes and the same
\* handle were found equal.
C24_Witness ==
  /\ Compared
  /\ call.arg = <<[Hash |-> "h1", Handle |-> "alice"], [Hash |-> "h2", Handle |-> "alice"]>>
  /\ call.out

\* ------------------------------------------------------- error response claims
ErrorResponseHandled == call.pc = "returned" /\ call.fn = "handlerErrorResponse"

\* C25: for an error body that does not parse, handlerErrorResponse logs the
\* parse failure and returns an internal error: not the parse failure, and
\* not a nil error.
C25_UnparsedIsInternalError ==
  (ErrorResponseHandled /\ ~call.arg.parses) =>
    /\ Len(call.out.log) = 1
    /\ call.out.err.kind = "status"
    /\ call.out.err.Code = 500

\* C25 witness: for a truncated body the function logged the parse failure and
\* returned a nil error.
C25_Witness ==
  /\ ErrorResponseHandled
  /\ call.arg.kind = "truncated"
  /\ call.out = [log |-> <<"Unable to unmarshal error response">>, err |-> NilError]

\* ------------------------------------------------------------- encoder claims
LongEncoded == call.pc = "returned" /\ call.fn = "loadAPItem"

\* C26: the object encoded for an item that is not of kind url is an Article
\* exactly when the body has more than 300 tokens delimited by whitespace, a
\* Note otherwise, and apart from its type it is the object encoded for the
\* same item with a body of one token.
C26_ArticleOver300Tokens ==
  LongEncoded =>
    /\ call.out.Type = (IF call.arg.text.tokens > 300 THEN "Article" ELSE "Note")
    /\ call.arg.text.tokens > 0 =>
         [call.out EXCEPT !.Type = ""] =
           [loadAPItemOf(LongItem(call.arg.mime, call.arg.text),
                         [tokens |-> 1, sep |-> "space"]) EXCEPT !.Type = ""]

\* C26 witness: an html item whose body has 301 tokens separated by one space
\* each was encoded as a Note.
C26_Witness ==
  /\ LongEncoded
  /\ call.arg = [mime |-> MimeTypeHTML, text |-> [tokens |-> 301, sep |-> "space"]]
  /\ call.out.Type = "Note"

\* ---------------------------------------------------------- page token claims
\* C27: in a walk the previous-page token of the filter set changes only
\* after the first fetched page, also when that page holds no entries, and the
\* next-page token is set after every page from the links of that page.
C27_PrevFromFirstPageOnly ==
  [][\A t \in Tasks :
       (pc[t] = "advance" /\ pc'[t] # "advance") =>
         /\ ff'[cur[t]].Next = getCollectionPrevNext(page[t]).next
         /\ fetches[t] > 1 => ff'[cur[t]].Prev = ff[cur[t]].Prev]_vars

\* C27 witness: a walk started after the first entry got a first page without
\* entries that links back to entry 2, fetched a second page without entries
\* and links, and ended with the previous-page token taken from the second page.
C27_Witness ==
  /\ op = "LoadFromCollection"
  /\ withheld
  /\ ff0[1].Next = 1
  /\ total[1] = MaxTotal
  /\ pc[1] \in {"walked", "done"}
  /\ terr[1] = NoErr
  /\ fetches[1] = 2
  /\ processed[1] = 0
  /\ ff[1].Prev = 0

\* ------------------------------------------------------------- timeout claims
\* C28: every page fetch of a walk has the whole timeout for itself: a fetch
\* ends with the deadline error only when the fetch itself took the timeout,
\* whatever time the earlier fetches of the walk took.
C28_FreshTimeoutPerFetch ==
  [][\A t \in Tasks :
       (pc[t] = "fetch" /\ terr'[t] = "deadline") =>
         clk'.now - clk.now >= PageTimeout]_vars

\* C28 witness: the second fetch of a walk ended with the deadline error when
\* the walk was ten milliseconds old, the first fetch having been answered.
C28_Witness ==
  /\ op = "LoadFromCollection"
  /\ clk = [now |-> PageTimeout, deadline |-> PageTimeout]
  /\ fetches[1] = 2
  /\ terr[1] = "deadline"
  /\ processed[1] > 0

\* ---------------------------------------------------------- moderation claims
\* C29: when ActorCollection has moderation ops whose target is a reference to
\* an actor, the lookup it makes in the accounts collection is filtered by
\* exactly the references of those actors.
C29_ActorsLookedUpByActorRefs ==
  [][\A t \in Tasks :
       (/\ op = "ActorCollection"
        /\ pc[t] = "deferActors" /\ pc'[t] # "deferActors"
        /\ buf.deferredActors # {}) =>
         buf'.actorsIRI = buf.deferredActors]_vars

\* C29 witness: ActorCollection returned without error after reading a Flag of
\* a referenced actor and a Create of a referenced object, having looked up
\* the accounts collection with the reference of the object as filter.
C29_Witness ==
  /\ op = "ActorCollection"
  /\ Returned_
  /\ ret.err = NoErr
  /\ buf.deferredActors # {}
  /\ buf.actorsIRI # {}
  /\ buf.actorsIRI = {d.id : d \in buf.deferredItems}
  /\ buf.actorsIRI \cap buf.deferredActors = {}

\* ------------------------------------------------------------ activity claims

CreateDecoded ==
  /\ call.pc = "returned"
  /\ call.fn = "Item.FromActivityPub of Create"
  /\ ~call.out.err
  /\ ~call.out.panic

\* C30: a Create or an Update with an actor, once decoded into an Item, has
\* the activity's actor as the item's author and the activity's published and
\* updated times as the item's times, whether or not the embedded object
\* names an author of its own.
C30_ActorAndTimesAttached ==
  CreateDecoded =>
    /\ call.out.SubmittedBy.set
    /\ call.out.SubmittedBy.Hash = ActorRef
    /\ call.out.SubmittedAt = call.arg.published
    /\ call.out.UpdatedAt = call.arg.updated

\* a Create by a referenced actor around a Note that names no author has
\* returned: the item has no author, and its times are the Note's
C30_Witness ==
  /\ CreateDecoded
  /\ call.arg.type = "Create"
  /\ call.arg.actor = "link"
  /\ call.arg.object.kind = "Note"
  /\ call.arg.object.attributedTo = "nil"
  /\ call.arg.published = 5 /\ call.arg.object.published = 1
  /\ call.out.SubmittedBy = NoAccount
  /\ call.out.AuthorURI = ActorRef
  /\ call.out.SubmittedAt = 1

\* -------------------------------------------------------------- author claims

AuthorsLoaded ==
  /\ call.pc = "returned"
  /\ call.fn = "loadItemsAuthors"
  /\ ~call.out.err

\* a reference matches a resolved account by hash, or by handle when it has
\* no hash
RefMatches(ref, a) ==
  \/ ref.Hash # "" /\ ref.Hash = a.Hash
  \/ ref.Hash = "" /\ ref.Handle # "" /\ ref.Handle = a.Handle

Resolved(ref, authors) ==
  IF \E a \in authors : RefMatches(ref, a)
    THEN CHOOSE a \in authors : RefMatches(ref, a)
    ELSE ref

\* C31: after a successful loadItemsAuthors the output holds the items of the
\* input in the same order; every author, updater, To and CC reference that
\* matches an account the lookup returned, by hash or by handle when the hash
\* is empty, is that account, and every other reference and field is as it
\* was.
C31_AuthorsBackfilled ==
  AuthorsLoaded =>
    LET in == call.arg.items
        out == call.out.items
        authors == AuthorsFound(call.arg)
    IN /\ Len(out) = Len(in)
       /\ \A k \in 1..Len(in) :
            out[k] = [in[k] EXCEPT
                        !.SubmittedBy = Resolved(in[k].SubmittedBy, authors),
                        !.UpdatedBy = Resolved(in[k].UpdatedBy, authors),
                        !.To = [n \in 1..Len(in[k].To) |->
                                  Resolved(in[k].To[n], authors)],
                        !.CC = [n \in 1..Len(in[k].CC) |->
                                  Resolved(in[k].CC[n], authors)]]

\* C31 witness: the lookup returned the account of alice for the second item,
\* and the first item, whose author is the handle alice without a hash, came
\* back with that reference unresolved.
C31_Witness ==
  /\ AuthorsLoaded
  /\ Len(call.arg.items) = 2
  /\ call.arg.items[1].SubmittedBy = [Hash |-> "", Handle |-> "alice", loaded |-> FALSE]
  /\ call.arg.items[2].SubmittedBy = [Hash |-> "h1", Handle |-> "", loaded |-> FALSE]
  /\ [Hash |-> "h1", Handle |-> "alice", loaded |-> TRUE] \in AuthorsFound(call.arg)
  /\ call.out.items[2].SubmittedBy.loaded
  /\ call.out.items[1].SubmittedBy = call.arg.items[1].SubmittedBy

\* ---------------------------------------------------------------- vote claims

VotesLoaded ==
  /\ call.pc = "returned"
  /\ call.fn = "loadItemsVotes"
  /\ ~call.out.err

\* the weights of the first n votes that name the item with hash h
RECURSIVE WeightOf(_, _, _)
WeightOf(votes, h, n) ==
  IF n = 0 THEN 0
  ELSE WeightOf(votes, h, n - 1) +
       (IF votes[n].target # h THEN 0
        ELSE IF votes[n].type = "Like" THEN 1
        ELSE IF votes[n].type = "Dislike" THEN 0 - 1 ELSE 0)

\* C32: after loadItemsVotes the score of each item is its score before plus
\* the weight of every vote activity of the vote collection, on whatever page,
\* whose target has the item's hash; the items are the same, in the same
\* order, with no other field changed.
C32_AllVotesCounted ==
  VotesLoaded =>
    /\ Len(call.out.items) = Len(call.arg.items)
    /\ \A k \in 1..Len(call.arg.items) :
         call.out.items[k] =
           [call.arg.items[k] EXCEPT
              !.Score = @ + WeightOf(call.arg.votes, call.arg.items[k].Hash,
                                     Len(call.arg.votes))]

\* C32 witness: the collection held three Likes of the first item, on two
\* pages, and the item came back with two of them in its score.
C32_Witness ==
  /\ VotesLoaded
  /\ Len(call.arg.votes) = PageSize + 1
  /\ \A n \in 1..Len(call.arg.votes) :
       call.arg.votes[n] = [type |-> "Like", target |-> "h1"]
  /\ call.arg.items[1].Score = 0
  /\ call.out.items[1].Score = PageSize

\* --------------------------------------------------------- stop signal claims

\* C33: in accounts, objects and ActorCollection a walk that started with an
\* empty next-page token fetches one page only, whatever next link the page
\* has, because the accumulator decides on the token as it was before the
\* page: a task about to fetch a further page of a filter set no other task
\* walks was handed a token by the caller.
C33_EmptyTokenOnePage ==
  \A t \in Tasks :
    (/\ op \in WalkOps
     /\ pc[t] = "fetch" /\ fetches[t] >= 1
     /\ \A s \in Tasks \ {t} : cur[s] # cur[t]) =>
      ff0[cur[t]].Next # 0

\* C33 witness: the first of two walks started on the first filter set, whose
\* token was empty, before the second task was started; its accumulator ran
\* when the range variable named the second filter set, whose token was not
\* empty, and the walk has fetched a second page.
C33_Witness ==
  /\ op = "accounts"
  /\ Len(ff0) = 2
  /\ ff0[1].Next = 0 /\ ff0[2].Next # 0
  /\ cur[1] = 1 /\ cur[2] # 1
  /\ pc[1] = "advance" /\ fetches[1] = 2

\* --------------------------------------------------------------- merge claims

\* C34: the list ActorCollection returns holds each decoded entity at most
\* once, for any number of filter sets and any interleaving of their tasks,
\* and the total of the cursor is the length of the list.
C34_EachEntityOnce ==
  (Returned_ /\ op = "ActorCollection" /\ ret.err = NoErr) =>
    /\ \A k, m \in 1..Len(ret.items) :
         ret.items[k].link = ret.items[m].link => k = m
    /\ ret.total = Len(ret.items)

\* C34 witness: ActorCollection over two filter sets returned without error a
\* list that holds the first entry served for the first filter set twice.
C34_Witness ==
  /\ Returned_ /\ op = "ActorCollection" /\ ret.err = NoErr
  /\ Len(ff0) = 2
  /\ ret.total = Len(ret.items)
  /\ \E k, m \in 1..Len(ret.items) :
       /\ k # m
       /\ ret.items[k].id = Entry(op, 1, 1).id
       /\ ret.items[m] = ret.items[k]

\* ----------------------------------------------------------- dispatch claims

\* C35: within one SaveVote call no activity is dispatched twice; the Undo of
\* the existing vote is sent at most once, also when the vote to save has the
\* sign of the existing one or weight 0.
C35_NoActivityTwice ==
  req.op = "SaveVote" =>
    \A k, m \in 1..Len(sent) : sent[k].act = sent[m].act => k = m

\* C35 witness: SaveVote with weight 0 by a submitter who has a vote on the
\* item has ended after handing the Undo of that vote to the outbox twice.
C35_Witness ==
  /\ req.op = "SaveVote"
  /\ req.weight = 0
  /\ exists.HasMetadata
  /\ wpc = "done"
  /\ Len(sent) = 2
  /\ sent[1].act = [type |-> "Undo", object |-> "vote"]
  /\ sent[2].act = sent[1].act
  /\ sent[1].ok /\ sent[2].ok

\* C37: SaveItem called with a valid author and an item that is marked
\* deleted and has no identifier returns a not-found error, without faulting
\* and without handing any activity to the outbox.
C37_DeleteWithoutIdNotFound ==
  (/\ req.op = "SaveItem"
   /\ ~req.acting.IsNil /\ req.acting.IsValid /\ req.acting.HasMetadata
   /\ req.deleted /\ ~req.hasId
   /\ wpc = "done") =>
    /\ res = "notfound"
    /\ sent = <<>>

\* C37 witness: SaveItem by a valid, logged-in author of a deleted item
\* without identifier and without mentions ended in a nil dereference before
\* any activity was sent.
C37_Witness ==
  /\ req.op = "SaveItem"
  /\ ~req.acting.IsNil /\ req.acting.IsValid /\ req.acting.HasMetadata
  /\ req.acting.IsLogged
  /\ req.deleted /\ ~req.hasId /\ ~req.mentions
  /\ wpc = "done"
  /\ res = "panic"
  /\ sent = <<>>

\* ---------------------------------------------------------- recipient claims

RecipientsDecoded == call.pc = "returned" /\ call.fn = "loadRecipients"

\* C36: an item decoded from a Create or an Update has the visibility and the
\* To and CC lists computed from the recipients of the activity alone: it is
\* public exactly when the public sentinel is in the To or the CC of the
\* activity, whatever the recipients of the embedded object are.
C36_RecipientsOfActivity ==
  RecipientsDecoded =>
    LET act == call.arg
        listed(l) == {l[n] : n \in 1..Len(l)}
    IN /\ ~call.out.Private <=> "public" \in listed(act.to) \cup listed(act.cc)
       /\ call.out.To = SelectSeq(act.to, LAMBDA rec : rec # "public")
       /\ call.out.CC = SelectSeq(act.cc, LAMBDA rec : rec # "public")

\* C36 witness: a Create addressed to one account, around a Note addressed to
\* the public and to a followers collection, was decoded as a private item
\* with that account as its one recipient.
C36_Witness ==
  /\ RecipientsDecoded
  /\ call.arg.type = "Create"
  /\ call.arg.to = <<"h1">> /\ call.arg.cc = <<>>
  /\ call.arg.object = [kind |-> "Note", to |-> <<"public">>, cc |-> <<"followers">>]
  /\ call.out = [Private |-> TRUE, To |-> <<"h1">>, CC |-> <<>>]

\* ------------------------------------------------------- parent chain claims

ParentsEncoding == call.pc # "idle" /\ call.fn = "loadAPItem InReplyTo"

====
